---- MODULE Spec2Model ----
(***************************************************************************)
(* A model of the geviewer core: the mesh-buffer combiner, the VRML block  *)
(* extractor, its per-block field processors and parse_file, the HepRep    *)
(* mesh builders and sibling reduction, the overlap detector of the viewer *)
(* and the viewer's session calls (load_file, create_plotter,              *)
(* clear_meshes).                                                          *)
(*                                                                         *)
(* Buffers are sequences.  A point buffer is a sequence of point tags, a   *)
(* colour buffer a sequence of colour tags, a topology buffer a sequence   *)
(* of integers holding count-prefixed records [k, i0 .. i(k-1)] with       *)
(* 0-based indices, exactly as the code stores them.                       *)
(***************************************************************************)
EXTENDS Integers, Sequences, FiniteSets, TLC

VARIABLES
    \* ---- Parser.combine_mesh_arrays ----
    c_in,       \* the call's arguments as passed: [points, cells, colors]
    c_cells,    \* the topology buffers passed in, as objects (updated in place)
    c_out,      \* the returned triple [points, cells, colors]
    c_pc,       \* "off" | "call" | "done"
    \* ---- VRMLParser.process_polyline_block / process_solid_block ----
    b_in,       \* what the block text spells out: [indices, faces]
    b_block,    \* the block text handed to the call, as a sequence of lines
    b_out,      \* the returned triple [points, cells, color]
    b_pc,       \* "off" | "polyline" | "solid" | "done" | "error"
    \* ---- VRMLParser.extract_blocks ----
    x_lines,    \* file_content.split('\n'): the lines of the file
    x_i,        \* the loop index: lines 1..x_i have been processed
    x_inside,   \* inside_block
    x_brace,    \* brace_count
    x_block,    \* block: the numbers of the lines collected since the block began
    x_out,      \* [viewpoint, polyline, marker, solid]: the blocks kept, by kind
    x_closed,   \* every block closed so far, kept or dropped, as <<first, last>> line
    x_pc,       \* "off" | "loop" | "done"
    \* ---- HepRepParser.parse_file ----
    h_in,       \* the component tree as populate_meshes left it
    h_comps,    \* self.components: the component tree being worked on
    h_pc,       \* "off" | "create" | "reduce" | "draw" | "done" | "failed_reduce" | "failed_draw"
    \* ---- GeViewer.find_overlaps ----
    v_components,  \* self.components: the forest of the loaded scene
    v_plotter,     \* the witness actors the plotter holds
    v_overlaps,    \* self.overlaps: the witness actors of the last call
    v_args,        \* the arguments of the last call: [tolerance, n_samples]
    v_log,         \* the pairs the last call tested, in order, and what it did with each
    v_ret,         \* the value the last call returned, as a set of ids
    v_pc,          \* "off" | "ready" | "returned" | "raised"
    \* ---- GeViewer.load_file / create_plotter / clear_meshes ----
    v_actors,      \* self.actors: the actor kept under each component id
    v_named,       \* the actors the plotter holds under a name
    v_event_ids,   \* self.event_ids
    v_added,       \* the components add_mesh was called for since the last clear, by position
    v_last,        \* the last call of the session: [op, ok, skipped]
    \* ---- VRMLParser.parse_file ----
    p_components,  \* self.components: <<>> until set, then <<root>>
    p_pc           \* "off" | "extract" | "done"

combineVars == <<c_in, c_cells, c_out, c_pc>>
blockVars == <<b_in, b_block, b_out, b_pc>>
extractVars == <<x_lines, x_i, x_inside, x_brace, x_block, x_out, x_closed, x_pc>>
hepVars == <<h_in, h_comps, h_pc>>
viewerVars == <<v_components, v_plotter, v_overlaps, v_args, v_log, v_ret, v_pc>>
sessionVars == <<v_actors, v_named, v_event_ids, v_added, v_last>>
vrmlVars == <<p_components, p_pc>>

vars == <<c_in, c_cells, c_out, c_pc, b_in, b_block, b_out, b_pc,
          x_lines, x_i, x_inside, x_brace, x_block, x_out, x_closed, x_pc,
          h_in, h_comps, h_pc,
          v_components, v_plotter, v_overlaps, v_args, v_log, v_ret, v_pc,
          v_actors, v_named, v_event_ids, v_added, v_last,
          p_components, p_pc>>

-----------------------------------------------------------------------------
(* Each part of the program is checked under a specification of its own;   *)
(* the parts it does not use stay in the state below.                      *)

\* No buffers: what a call holds before it has returned.
NoResult == [points |-> <<>>, cells |-> <<>>, colors |-> <<>>]

CombineOff ==
    /\ c_in = NoResult
    /\ c_cells = <<>>
    /\ c_out = NoResult
    /\ c_pc = "off"

BlockOff ==
    /\ b_in = [indices |-> <<>>, faces |-> <<>>]
    /\ b_block = <<>>
    /\ b_out = NoResult
    /\ b_pc = "off"

\* viewpoint_block = None and the three block lists empty.
NoBlocks == [viewpoint |-> <<>>, polyline |-> <<>>, marker |-> <<>>, solid |-> <<>>]

ExtractOff ==
    /\ x_lines = <<>>
    /\ x_i = 0
    /\ x_inside = FALSE
    /\ x_brace = 0
    /\ x_block = <<>>
    /\ x_out = NoBlocks
    /\ x_closed = <<>>
    /\ x_pc = "off"

HepOff ==
    /\ h_in = <<>>
    /\ h_comps = <<>>
    /\ h_pc = "off"

\* The arguments of no call.
NoArgs == [tolerance |-> [num |-> 0, den |-> 1], n_samples |-> 0]

ViewerOff ==
    /\ v_components = <<>>
    /\ v_plotter = {}
    /\ v_overlaps = <<>>
    /\ v_args = NoArgs
    /\ v_log = <<>>
    /\ v_ret = {}
    /\ v_pc = "off"

\* An empty map: self.actors = {} and a plotter without named actors.
NoActors == [n \in {} |-> 0]

\* No call yet.
NoCall == [op |-> "", ok |-> TRUE, skipped |-> 0]

SessionOff ==
    /\ v_actors = NoActors
    /\ v_named = NoActors
    /\ v_event_ids = <<>>
    /\ v_added = <<>>
    /\ v_last = NoCall

VrmlOff ==
    /\ p_components = <<>>
    /\ p_pc = "off"

-----------------------------------------------------------------------------
(* Generic sequence helpers *)

\* np.concatenate over a list of buffers: the buffers joined in list order.
RECURSIVE Concatenate(_)
Concatenate(bufs) ==
    IF bufs = <<>> THEN <<>> ELSE Head(bufs) \o Concatenate(Tail(bufs))

\* np.cumsum: the running (inclusive) sums of a list of integers.
RECURSIVE CumSumFrom(_, _)
CumSumFrom(acc, xs) ==
    IF xs = <<>> THEN <<>>
    ELSE <<acc + Head(xs)>> \o CumSumFrom(acc + Head(xs), Tail(xs))

CumSum(xs) == CumSumFrom(0, xs)

\* All sequences over S of length at most n.
RECURSIVE SeqsUpTo(_, _)
SeqsUpTo(S, n) ==
    IF n = 0 THEN {<<>>}
    ELSE LET shorter == SeqsUpTo(S, n - 1)
         IN  shorter \cup {Append(s, x) : s \in shorter, x \in S}

-----------------------------------------------------------------------------
(* Parser.combine_mesh_arrays *)

\* Bounds of the combiner's inputs.
MaxItems == 3

\* The point counts of an item, and the sizes of the records of its topology.
PointCounts == {0, 1, 2}
RecordLayouts == {<<>>, <<1>>, <<2>>, <<1, 2>>, <<2, 1>>}

\* The topology buffer with record sizes ks over npts points; index t of
\* record r is (fill + r + t) mod npts, so every index is valid for the item.
RECURSIVE TopologyOf(_, _, _, _)
TopologyOf(ks, r, npts, fill) ==
    IF ks = <<>> THEN <<>>
    ELSE <<Head(ks)>>
         \o [t \in 1..Head(ks) |-> (fill + r + t) % npts]
         \o TopologyOf(Tail(ks), r + 1, npts, fill)

\* One item (points, cells, colors) of a call: points and colours are tagged
\* by item number and position, so that order and identity can be observed.
CombineItem(i, npts, ks, fill) ==
    [points |-> [p \in 1..npts |-> <<"pt", i, p>>],
     cells  |-> TopologyOf(ks, 0, npts, fill),
     colors |-> [p \in 1..npts |-> <<"rgba", i, p>>]]

ItemShapes ==
    {sh \in [npts : PointCounts, ks : RecordLayouts] :
        sh.npts = 0 => sh.ks = <<>>}

\* The arguments of a call with the items of shapes shs.
CombineInput(shs, fill) ==
    [points |-> [i \in 1..Len(shs) |-> CombineItem(i, shs[i].npts, shs[i].ks, fill).points],
     cells  |-> [i \in 1..Len(shs) |-> CombineItem(i, shs[i].npts, shs[i].ks, fill).cells],
     colors |-> [i \in 1..Len(shs) |-> CombineItem(i, shs[i].npts, shs[i].ks, fill).colors]]

\* offsets = np.cumsum([0] + [len(p) for p in points[:-1]])
OffsetsBad(points) ==
    <<0>> \o [i \in 1..(Len(points) - 1) |-> Len(points[i])]

Offsets(points) ==
    CumSum(<<0>> \o [i \in 1..(Len(points) - 1) |-> Len(points[i])])

\* cell[j + 1:j + k + 1] = (np.array(cell[j + 1:j + k + 1]) + offset).tolist()
\* A slice that runs past the end of the buffer covers what is there.
AddToSlice(cell, j, k, offset) ==
    [p \in 1..Len(cell) |->
        IF j + 1 <= p - 1 /\ p - 1 < j + k + 1 THEN cell[p] + offset ELSE cell[p]]

\* The while loop over one buffer: j walks from record to record.
RECURSIVE WalkCell(_, _, _)
WalkCell(cell, j, offset) ==
    IF j < Len(cell)
    THEN LET k == cell[j + 1]
         IN  WalkCell(AddToSlice(cell, j, k, offset), j + k + 1, offset)
    ELSE cell

\* The for loop: every buffer of cells is rewritten in place.
OffsetCells(points, cells) ==
    [i \in 1..Len(cells) |-> WalkCell(cells[i], 0, Offsets(points)[i])]

\* The returned triple.
CombineMeshArrays(points, cells, colors) ==
    [points |-> Concatenate(points),
     cells  |-> Concatenate(OffsetCells(points, cells)),
     colors |-> Concatenate(colors)]

CombineInit ==
    /\ \E n \in 1..MaxItems : \E shs \in [1..n -> ItemShapes], fill \in {0, 1} :
          c_in = CombineInput(shs, fill)
    /\ c_cells = c_in.cells
    /\ c_out = NoResult
    /\ c_pc = "call"

\* One call of combine_mesh_arrays(points, cells, colors).
CombineCall ==
    /\ c_pc = "call"
    /\ c_cells' = OffsetCells(c_in.points, c_cells)
    /\ c_out' = CombineMeshArrays(c_in.points, c_cells, c_in.colors)
    /\ c_pc' = "done"
    /\ UNCHANGED c_in

InitCombine == CombineInit /\ BlockOff /\ ExtractOff /\ HepOff /\ ViewerOff /\ SessionOff /\ VrmlOff

NextCombine == CombineCall /\ UNCHANGED <<blockVars, extractVars, hepVars, viewerVars, sessionVars, vrmlVars>>

SpecCombine == InitCombine /\ [][NextCombine]_vars

-----------------------------------------------------------------------------
(* Claims about combine_mesh_arrays *)

\* The records [k, <<i0 .. i(k-1)>>] a well-formed topology buffer holds.
RECURSIVE RecordsOf(_)
RecordsOf(cell) ==
    IF cell = <<>> THEN <<>>
    ELSE LET k == Head(cell)
         IN  <<[k |-> k, idx |-> SubSeq(cell, 2, k + 1)]>>
             \o RecordsOf(SubSeq(cell, k + 2, Len(cell)))

\* The number of points of the items before item i.
RECURSIVE PointsBefore(_, _)
PointsBefore(points, i) ==
    IF i <= 1 THEN 0 ELSE PointsBefore(points, i - 1) + Len(points[i - 1])

\* A buffer's records with d added to every index and every count kept.
RECURSIVE ShiftedBy(_, _)
ShiftedBy(recs, d) ==
    IF recs = <<>> THEN <<>>
    ELSE <<Head(recs).k>>
         \o [t \in 1..Len(Head(recs).idx) |-> Head(recs).idx[t] + d]
         \o ShiftedBy(Tail(recs), d)

IndicesValid(cell, npts) ==
    \A r \in 1..Len(RecordsOf(cell)) :
        \A t \in 1..Len(RecordsOf(cell)[r].idx) :
            RecordsOf(cell)[r].idx[t] \in 0..(npts - 1)

\* C1: combine_mesh_arrays on well-formed items returns the points, the
\* topology and the colours concatenated in item order; every index of item i
\* is raised by the number of points of the items before it and every count is
\* kept, so every combined index is valid for the combined point buffer,
\* subtracting the offset recovers the item's topology, and a single item is
\* returned as it was given.
C1_CombineOffsets ==
    c_pc = "done" =>
        LET pts == c_in.points
            n   == Len(pts)
        IN  /\ Len(c_out.points) = PointsBefore(pts, n + 1)
            /\ Len(c_out.colors) = PointsBefore(c_in.colors, n + 1)
            /\ \A i \in 1..n : \A p \in 1..Len(pts[i]) :
                   /\ c_out.points[PointsBefore(pts, i) + p] = pts[i][p]
                   /\ c_out.colors[PointsBefore(c_in.colors, i) + p] = c_in.colors[i][p]
            /\ c_out.cells =
                   Concatenate([i \in 1..n |->
                       ShiftedBy(RecordsOf(c_in.cells[i]), PointsBefore(pts, i))])
            /\ \A i \in 1..n :
                   ShiftedBy(RecordsOf(SubSeq(c_out.cells,
                                 PointsBefore(c_in.cells, i) + 1,
                                 PointsBefore(c_in.cells, i + 1))),
                             0 - PointsBefore(pts, i)) = c_in.cells[i]
            /\ IndicesValid(c_out.cells, Len(c_out.points))
            /\ n = 1 => /\ c_out.points = pts[1]
                        /\ c_out.cells = c_in.cells[1]
                        /\ c_out.colors = c_in.colors[1]

\* Three items, the second and third with a non-zero offset, the third
\* holding two records.
C1_Witness ==
    /\ c_pc = "done"
    /\ Len(c_in.points) = 3
    /\ Len(c_in.points[1]) = 2
    /\ Len(c_in.points[2]) = 1
    /\ Len(RecordsOf(c_in.cells[3])) = 2
    /\ c_out.cells # Concatenate(c_in.cells)

\* C15: combine_mesh_arrays has no effect on its arguments: after a call with
\* two or more items every topology buffer passed in still holds the indices
\* it held at the call (the point and colour buffers are never written: c_in
\* is what was passed and the call only reads it).
C15_ArgumentsUntouched ==
    (c_pc = "done" /\ Len(c_in.points) >= 2) => c_cells = c_in.cells

-----------------------------------------------------------------------------
(* combine_mesh_arrays on a topology buffer that ends inside a record *)

\* How many trailing entries the last buffer of a call may lack.
MaxCut == 2

\* A buffer without its last d entries.
CutTail(cell, d) == SubSeq(cell, 1, Len(cell) - d)

\* The arguments of a call whose last buffer lacks its last d entries.
CutInput(shs, fill, d) ==
    LET whole == CombineInput(shs, fill)
        n     == Len(shs)
    IN  [whole EXCEPT !.cells[n] = CutTail(whole.cells[n], d)]

\* The walk of the while loop stops exactly at the end of the buffer: every
\* record [k, ...] is followed by its k indices.
RECURSIVE WellFormed(_)
WellFormed(cell) ==
    IF cell = <<>> THEN TRUE
    ELSE /\ Head(cell) + 1 <= Len(cell)
         /\ WellFormed(SubSeq(cell, Head(cell) + 2, Len(cell)))

CutInit ==
    /\ \E n \in 1..MaxItems : \E shs \in [1..n -> ItemShapes], fill \in {0, 1} :
          \E d \in 0..MaxCut :
              /\ d <= Len(CombineInput(shs, fill).cells[n])
              /\ c_in = CutInput(shs, fill, d)
    /\ c_cells = c_in.cells
    /\ c_out = NoResult
    /\ c_pc = "call"

InitCombineCut == CutInit /\ BlockOff /\ ExtractOff /\ HepOff /\ ViewerOff /\ SessionOff /\ VrmlOff

NextCombineCut == CombineCall /\ UNCHANGED <<blockVars, extractVars, hepVars, viewerVars, sessionVars, vrmlVars>>

SpecCombineCut == InitCombineCut /\ [][NextCombineCut]_vars

\* C14: a call of combine_mesh_arrays with an item whose topology buffer ends
\* inside a record does not return combined buffers.
C14_MalformedRejected ==
    (\E i \in 1..Len(c_in.cells) : ~WellFormed(c_in.cells[i])) => c_pc # "done"

-----------------------------------------------------------------------------
(* VRMLParser.parse_polyline_block, parse_solid_block and the two block    *)
(* processors.  A block is a sequence of lines; a line is [kind, toks]:    *)
(* kind says what the stripped line starts with or contains, toks are the  *)
(* numeric tokens left after the commas are removed and the line is split. *)

PointOpen == [kind |-> "point [", toks |-> <<>>]
IndexOpen == [kind |-> "coordIndex [", toks |-> <<>>]
BracketClose == [kind |-> "]", toks |-> <<>>]
OtherLine == [kind |-> "other", toks |-> <<>>]
DataLine(toks) == [kind |-> "data", toks |-> toks]
ColorLine(rgb) == [kind |-> "diffuseColor", toks |-> rgb]
TransparencyLine(t) == [kind |-> "transparency", toks |-> <<t>>]

\* The state of a block parser before its first line.
ParseStart ==
    [reading_points |-> FALSE, reading_indices |-> FALSE, coords |-> <<>>,
     coord_inds |-> <<>>, color |-> <<1, 1, 1>>, transparency |-> 0, error |-> FALSE]

\* The tail of both parsers' loop body: a line that did not `continue`.
\* A line of words inside the index list makes int() raise.
ReadData(st, line) ==
    IF st.reading_points
    THEN IF line.kind = "data" /\ Len(line.toks) = 3
         THEN [st EXCEPT !.coords = Append(@, line.toks)]
         ELSE st
    ELSE IF st.reading_indices
         THEN IF line.kind = "data"
              THEN [st EXCEPT !.coord_inds = @ \o line.toks]
              ELSE [st EXCEPT !.error = TRUE]
         ELSE st

\* One iteration of parse_polyline_block's loop.
ParsePolylineLine(st, line) ==
    IF line.kind = "point [" THEN [st EXCEPT !.reading_points = TRUE]
    ELSE IF line.kind = "]"
         THEN [st EXCEPT !.reading_points = FALSE, !.reading_indices = FALSE]
    ELSE IF line.kind = "coordIndex [" THEN [st EXCEPT !.reading_indices = TRUE]
    ELSE IF line.kind = "diffuseColor"
         THEN ReadData([st EXCEPT !.color = line.toks], line)
    ELSE ReadData(st, line)

\* One iteration of parse_solid_block's loop.
ParseSolidLine(st, line) ==
    IF line.kind = "point [" THEN [st EXCEPT !.reading_points = TRUE]
    ELSE IF line.kind = "]"
         THEN [st EXCEPT !.reading_points = FALSE, !.reading_indices = FALSE]
    ELSE IF line.kind = "coordIndex [" THEN [st EXCEPT !.reading_indices = TRUE]
    ELSE IF line.kind = "diffuseColor"
         THEN ReadData([st EXCEPT !.color = line.toks], line)
    ELSE IF line.kind = "transparency"
         THEN ReadData([st EXCEPT !.transparency = line.toks[1]], line)
    ELSE ReadData(st, line)

RECURSIVE ParsePolylineFrom(_, _)
ParsePolylineFrom(st, lines) ==
    IF lines = <<>> THEN st
    ELSE ParsePolylineFrom(ParsePolylineLine(st, Head(lines)), Tail(lines))

RECURSIVE ParseSolidFrom(_, _)
ParseSolidFrom(st, lines) ==
    IF lines = <<>> THEN st
    ELSE ParseSolidFrom(ParseSolidLine(st, Head(lines)), Tail(lines))

\* parse_polyline_block: coordinates, indices and the colour with alpha 1.
ParsePolylineBlock(block) ==
    LET st == ParsePolylineFrom(ParseStart, block)
    IN  [points |-> st.coords, indices |-> st.coord_inds,
         color |-> Append(st.color, 1), error |-> st.error]

\* parse_solid_block: coordinates, indices and the colour with alpha
\* 1 - transparency.
ParseSolidBlock(block) ==
    LET st == ParseSolidFrom(ParseStart, block)
    IN  [points |-> st.coords, indices |-> st.coord_inds,
         color |-> Append(st.color, 1 - st.transparency), error |-> st.error]

\* The loop of process_polyline_block from position i (0-based) on.
RECURSIVE PolylineLinesBad(_, _)
PolylineLinesBad(indices, i) ==
    IF i >= Len(indices) - 1 THEN <<>>
    ELSE (IF indices[i + 1] # -1
          THEN <<2, indices[i + 1], indices[i + 2]>> ELSE <<>>)
         \o PolylineLinesBad(indices, i + 1)

RECURSIVE PolylineLines(_, _)
PolylineLines(indices, i) ==
    IF i >= Len(indices) - 1 THEN <<>>
    ELSE (IF indices[i + 1] # -1 /\ indices[i + 2] # -1
          THEN <<2, indices[i + 1], indices[i + 2]>> ELSE <<>>)
         \o PolylineLines(indices, i + 1)

\* process_polyline_block
ProcessPolylineBlock(block) ==
    LET parsed == ParsePolylineBlock(block)
    IN  [points |-> parsed.points, cells |-> PolylineLines(parsed.indices, 0),
         color |-> parsed.color]

\* The loop of process_solid_block: faces emitted so far and the face being
\* collected.
RECURSIVE SolidFacesBad(_, _)
SolidFacesBad(indices, current_face) ==
    IF indices = <<>> THEN <<>>
    ELSE IF Head(indices) = -1
         THEN (IF Len(current_face) = 3 THEN <<3>> \o current_face
               ELSE IF Len(current_face) >= 4 THEN <<4>> \o current_face
               ELSE <<>>)
              \o SolidFacesBad(Tail(indices), <<>>)
         ELSE SolidFacesBad(Tail(indices), Append(current_face, Head(indices)))

RECURSIVE SolidFaces(_, _)
SolidFaces(indices, current_face) ==
    IF indices = <<>> THEN <<>>
    ELSE IF Head(indices) = -1
         THEN (IF Len(current_face) = 3 THEN <<3>> \o current_face
               ELSE IF Len(current_face) = 4 THEN <<4>> \o current_face
               ELSE <<>>)
              \o SolidFaces(Tail(indices), <<>>)
         ELSE SolidFaces(Tail(indices), Append(current_face, Head(indices)))

\* process_solid_block
ProcessSolidBlock(block) ==
    LET parsed == ParseSolidBlock(block)
    IN  [points |-> parsed.points, cells |-> SolidFaces(parsed.indices, <<>>),
         color |-> parsed.color]

\* Bounds of the block inputs.
MaxIndexLen == 5
MaxFaces == 3
MaxFaceSize == 5

\* The values an index list is drawn from: the sentinel and three indices.
IndexValues == {-1, 0, 1, 2}

\* The index list of the documented track example.
TrackExample == <<0, 1, 2, -1, 5, 6, -1>>

RECURSIVE MaxOf(_)
MaxOf(xs) ==
    IF xs = <<>> THEN -1
    ELSE IF Head(xs) > MaxOf(Tail(xs)) THEN Head(xs) ELSE MaxOf(Tail(xs))

\* A block as the exporter writes it: header lines, the point list with one
\* point per line, the index list on the given lines, a closing line.
BlockText(npts, indexLines, extra) ==
    <<OtherLine, ColorLine(<<1, 0, 0>>)>> \o extra \o <<PointOpen>>
    \o [p \in 1..npts |-> DataLine(<<p, p, p>>)]
    \o <<BracketClose, IndexOpen>>
    \o [l \in 1..Len(indexLines) |-> DataLine(indexLines[l])]
    \o <<BracketClose, OtherLine>>

\* A track block whose index list is split over two lines after `split` entries.
TrackBlock(indices, split) ==
    BlockText(MaxOf(indices) + 1,
              <<SubSeq(indices, 1, split), SubSeq(indices, split + 1, Len(indices))>>,
              <<>>)

TrackIndexLists(max_len) == SeqsUpTo(IndexValues, max_len) \cup {TrackExample}

\* The faces of size sizes[1], sizes[2], ... over indices counted up from
\* `from` modulo 3, each followed by its -1.
RECURSIVE FacesOf(_, _)
FacesOf(sizes, from) ==
    IF sizes = <<>> THEN <<>>
    ELSE <<[t \in 1..Head(sizes) |-> (from + t) % 3]>>
         \o FacesOf(Tail(sizes), from + Head(sizes))

\* A solid block: one terminated face per line, then `tail` indices that no
\* -1 follows.
SolidBlock(faces, tail) ==
    BlockText(3, [f \in 1..Len(faces) |-> Append(faces[f], -1)] \o <<tail>>,
              <<TransparencyLine(0)>>)

SolidFaceLists(max_size, max_faces) ==
    {FacesOf(sizes, 0) : sizes \in SeqsUpTo(0..max_size, max_faces)}

TrackInit ==
    /\ \E indices \in TrackIndexLists(MaxIndexLen) : \E split \in 0..Len(indices) :
          /\ b_in = [indices |-> indices, faces |-> <<>>]
          /\ b_block = TrackBlock(indices, split)
    /\ b_out = NoResult
    /\ b_pc = "polyline"

SolidInit ==
    /\ \E faces \in SolidFaceLists(MaxFaceSize, MaxFaces) : \E tail \in {<<>>, <<0>>, <<0, 1, 2>>} :
          /\ b_in = [indices |-> Concatenate([f \in 1..Len(faces) |->
                                     Append(faces[f], -1)]) \o tail,
                     faces |-> faces]
          /\ b_block = SolidBlock(faces, tail)
    /\ b_out = NoResult
    /\ b_pc = "solid"

\* One call of process_polyline_block(block).
ProcessPolyline ==
    /\ b_pc = "polyline"
    /\ IF ParsePolylineBlock(b_block).error
       THEN b_pc' = "error" /\ UNCHANGED b_out
       ELSE /\ b_out' = [points |-> ProcessPolylineBlock(b_block).points,
                         cells  |-> ProcessPolylineBlock(b_block).cells,
                         colors |-> ProcessPolylineBlock(b_block).color]
            /\ b_pc' = "done"
    /\ UNCHANGED <<b_in, b_block>>

\* One call of process_solid_block(block).
ProcessSolid ==
    /\ b_pc = "solid"
    /\ IF ParseSolidBlock(b_block).error
       THEN b_pc' = "error" /\ UNCHANGED b_out
       ELSE /\ b_out' = [points |-> ProcessSolidBlock(b_block).points,
                         cells  |-> ProcessSolidBlock(b_block).cells,
                         colors |-> ProcessSolidBlock(b_block).color]
            /\ b_pc' = "done"
    /\ UNCHANGED <<b_in, b_block>>

InitTrack == CombineOff /\ TrackInit /\ ExtractOff /\ HepOff /\ ViewerOff /\ SessionOff /\ VrmlOff

NextTrack == ProcessPolyline /\ UNCHANGED <<combineVars, extractVars, hepVars, viewerVars, sessionVars, vrmlVars>>

SpecTrack == InitTrack /\ [][NextTrack]_vars

InitSolid == CombineOff /\ SolidInit /\ ExtractOff /\ HepOff /\ ViewerOff /\ SessionOff /\ VrmlOff

NextSolid == ProcessSolid /\ UNCHANGED <<combineVars, extractVars, hepVars, viewerVars, sessionVars, vrmlVars>>

SpecSolid == InitSolid /\ [][NextSolid]_vars

-----------------------------------------------------------------------------
(* Claims about the block processors *)

\* The runs of an index list: the maximal stretches holding no -1.
RECURSIVE RunsOf(_, _)
RunsOf(indices, run) ==
    IF indices = <<>> THEN <<run>>
    ELSE IF Head(indices) = -1 THEN <<run>> \o RunsOf(Tail(indices), <<>>)
         ELSE RunsOf(Tail(indices), Append(run, Head(indices)))

\* One record [2, a, b] for each two neighbours a, b of a run.
SegmentsOfRun(run) ==
    Concatenate([t \in 1..(IF Len(run) = 0 THEN 0 ELSE Len(run) - 1) |->
                    <<2, run[t], run[t + 1]>>])

\* C9: process_polyline_block emits exactly one record [2, a, b] for each two
\* consecutive entries a, b of the index list that are both not -1, in input
\* order: every run between sentinels gives the segments of its neighbours, a
\* run of one index gives none, and no record joins two runs; the index list
\* [0,1,2,-1,5,6,-1] gives exactly [2,0,1, 2,1,2, 2,5,6].
C9_TrackSegments ==
    b_pc = "done" =>
        LET runs == RunsOf(b_in.indices, <<>>)
        IN  /\ b_out.cells = Concatenate([r \in 1..Len(runs) |-> SegmentsOfRun(runs[r])])
            /\ b_in.indices = TrackExample =>
                   b_out.cells = <<2, 0, 1, 2, 1, 2, 2, 5, 6>>

\* The documented example has been processed.
C9_Witness ==
    /\ b_pc = "done"
    /\ b_in.indices = TrackExample
    /\ Len(b_out.cells) = 9

\* A second case: two runs of which one holds a single index.
C9_WitnessShortRun ==
    /\ b_pc = "done"
    /\ b_in.indices = <<0, -1, 1, 2>>
    /\ b_out.cells = <<2, 1, 2>>

\* The faces of the input with exactly 3 or 4 indices, each behind its count.
RECURSIVE KeptFaces(_)
KeptFaces(faces) ==
    IF faces = <<>> THEN <<>>
    ELSE (IF Len(Head(faces)) \in {3, 4} THEN <<Len(Head(faces))>> \o Head(faces)
          ELSE <<>>)
         \o KeptFaces(Tail(faces))

\* C10: process_solid_block emits, in input order, one record [3, ...] for
\* every -1-terminated face of exactly 3 indices and one record [4, ...] for
\* every -1-terminated face of exactly 4 indices and nothing for a face of any
\* other size, so the output is a well-formed sequence of count-prefixed
\* records holding exactly those faces.
C10_SolidFaces ==
    b_pc = "done" =>
        /\ b_out.cells = KeptFaces(b_in.faces)
        /\ ShiftedBy(RecordsOf(b_out.cells), 0) = b_out.cells
        /\ \A r \in 1..Len(RecordsOf(b_out.cells)) :
               /\ RecordsOf(b_out.cells)[r].k \in {3, 4}
               /\ Len(RecordsOf(b_out.cells)[r].idx) = RecordsOf(b_out.cells)[r].k

\* Faces of size 3, 5 and 4 in one block: two records come out.
C10_Witness ==
    /\ b_pc = "done"
    /\ Len(b_in.faces) = 3
    /\ Len(b_in.faces[1]) = 3
    /\ Len(b_in.faces[2]) = 5
    /\ Len(b_in.faces[3]) = 4
    /\ Len(b_out.cells) = 9

-----------------------------------------------------------------------------
(* VRMLParser.extract_blocks.  A line of the file is [kw, open, close,     *)
(* has]: the block keyword its stripped text starts with ("" when none),   *)
(* the numbers of '{' and '}' on it, and the substrings among              *)
(* IndexedLineSet, Sphere, IndexedFaceSet, Viewpoint it contains.          *)

\* Bound of the file length.
MaxLines == 6

FileLine(kw, open, close, has) ==
    [kw |-> kw, open |-> open, close |-> close, has |-> has]

\* The lines a file is written with.
LineKinds ==
    {FileLine("Shape", 1, 0, {}),                    \* Shape {
     FileLine("Anchor", 1, 0, {}),                   \* Anchor {
     FileLine("Viewpoint", 1, 0, {"Viewpoint"}),     \* Viewpoint {
     FileLine("Shape", 0, 0, {}),                    \* Shape
     FileLine("", 1, 0, {"IndexedFaceSet"}),         \* geometry IndexedFaceSet {
     FileLine("", 1, 0, {"IndexedLineSet"}),         \* geometry IndexedLineSet {
     FileLine("", 1, 1, {"Sphere"}),                 \* geometry Sphere { radius 1 }
     FileLine("", 0, 1, {}),                         \* }
     FileLine("", 0, 0, {})}                         \* children [

\* The brace-balanced texts of at most n lines that start at brace depth d:
\* the depth never goes below 0 and ends at 0.
RECURSIVE BalancedTexts(_, _)
BalancedTexts(n, d) ==
    (IF d = 0 THEN {<<>>} ELSE {})
    \cup (IF n = 0 THEN {}
          ELSE UNION {{<<l>> \o t : t \in BalancedTexts(n - 1, d + l.open - l.close)}
                        : l \in {k \in LineKinds : d + k.open - k.close >= 0}})

\* stripped_line.startswith('Shape') or ...('Anchor') or ...('Viewpoint')
StartsBlock(line) == line.kw \in {"Shape", "Anchor", "Viewpoint"}

\* 'word' in block_content, for the block made of the lines numbered in block.
BlockContains(lines, block, word) ==
    \E n \in 1..Len(block) : word \in lines[block[n]].has

\* The if / elif chain that files a closed block.
FileBlockBad(out, lines, block) ==
    IF BlockContains(lines, block, "Sphere")
    THEN [out EXCEPT !.marker = Append(@, block)]
    ELSE IF BlockContains(lines, block, "IndexedLineSet")
         THEN [out EXCEPT !.polyline = Append(@, block)]
    ELSE IF BlockContains(lines, block, "IndexedFaceSet")
         THEN [out EXCEPT !.solid = Append(@, block)]
    ELSE IF BlockContains(lines, block, "Viewpoint")
         THEN [out EXCEPT !.viewpoint = <<block>>]
    ELSE out

FileBlock(out, lines, block) ==
    IF BlockContains(lines, block, "IndexedLineSet")
    THEN [out EXCEPT !.polyline = Append(@, block)]
    ELSE IF BlockContains(lines, block, "Sphere")
         THEN [out EXCEPT !.marker = Append(@, block)]
    ELSE IF BlockContains(lines, block, "IndexedFaceSet")
         THEN [out EXCEPT !.solid = Append(@, block)]
    ELSE IF BlockContains(lines, block, "Viewpoint")
         THEN [out EXCEPT !.viewpoint = <<block>>]
    ELSE out

ExtractInit ==
    /\ x_lines \in BalancedTexts(MaxLines, 0)
    /\ x_i = 0
    /\ x_inside = FALSE
    /\ x_brace = 0
    /\ x_block = <<>>
    /\ x_out = NoBlocks
    /\ x_closed = <<>>
    /\ x_pc = "loop"

\* One iteration of the for loop over the lines.
ExtractLine ==
    /\ x_pc = "loop"
    /\ x_i < Len(x_lines)
    /\ LET n      == x_i + 1
           line   == x_lines[n]
           inside == x_inside \/ StartsBlock(line)
           brace0 == IF StartsBlock(line) THEN 0 ELSE x_brace
           block  == Append(x_block, n)
           brace  == brace0 + line.open - line.close
       IN  /\ x_i' = n
           /\ IF ~inside
              THEN /\ x_brace' = brace0
                   /\ UNCHANGED <<x_inside, x_block, x_out, x_closed>>
              ELSE IF brace = 0
                   THEN /\ x_out' = FileBlock(x_out, x_lines, block)
                        /\ x_closed' = Append(x_closed, <<block[1], n>>)
                        /\ x_block' = <<>>
                        /\ x_inside' = FALSE
                        /\ x_brace' = brace
                   ELSE /\ x_block' = block
                        /\ x_inside' = TRUE
                        /\ x_brace' = brace
                        /\ UNCHANGED <<x_out, x_closed>>
    /\ UNCHANGED <<x_lines, x_pc>>

\* return viewpoint_block, polyline_blocks, marker_blocks, solid_blocks
ExtractReturn ==
    /\ x_pc = "loop"
    /\ x_i = Len(x_lines)
    /\ x_pc' = "done"
    /\ UNCHANGED <<x_lines, x_i, x_inside, x_brace, x_block, x_out, x_closed>>

InitExtract == CombineOff /\ BlockOff /\ ExtractInit /\ HepOff /\ ViewerOff /\ SessionOff /\ VrmlOff

NextExtract ==
    \/ ExtractLine /\ UNCHANGED <<combineVars, blockVars, hepVars, viewerVars, sessionVars, vrmlVars>>
    \/ ExtractReturn /\ UNCHANGED <<combineVars, blockVars, hepVars, viewerVars, sessionVars, vrmlVars>>

SpecExtract == InitExtract /\ [][NextExtract]_vars

-----------------------------------------------------------------------------
(* Claims about extract_blocks *)

\* The blocks of a text as <<first, last>> line: a block opens at a keyword
\* line met outside every block and closes at the line after which the brace
\* depth counted from its opening line is back at 0.
RECURSIVE BalancedBlocks(_, _, _, _)
BalancedBlocks(lines, n, first, depth) ==
    IF n > Len(lines) THEN <<>>
    ELSE LET line   == lines[n]
             opens  == first = 0 /\ StartsBlock(line)
             start  == IF opens THEN n ELSE first
             depth1 == (IF opens THEN 0 ELSE depth) + line.open - line.close
         IN  IF start = 0 THEN BalancedBlocks(lines, n + 1, 0, 0)
             ELSE IF depth1 = 0
                  THEN <<<<start, n>>>> \o BalancedBlocks(lines, n + 1, 0, 0)
                  ELSE BalancedBlocks(lines, n + 1, start, depth1)

\* The keyword lines at file scope: those that no block of the text holds
\* behind its first line.
FileScopeKeywords(lines) ==
    {n \in 1..Len(lines) :
        /\ StartsBlock(lines[n])
        /\ ~\E b \in 1..Len(BalancedBlocks(lines, 1, 0, 0)) :
              /\ BalancedBlocks(lines, 1, 0, 0)[b][1] < n
              /\ n <= BalancedBlocks(lines, 1, 0, 0)[b][2]}

\* C3: on a brace-balanced text extract_blocks closes a block only on the
\* line at which the brace depth counted from the block's opening keyword line
\* returns to 0, so the blocks closed are as many as the keyword lines at file
\* scope, and no line nested inside a block closes it early or starts a
\* second block.
C3_BlocksBalanced ==
    x_pc = "done" =>
        /\ x_closed = BalancedBlocks(x_lines, 1, 0, 0)
        /\ Len(x_closed) = Cardinality(FileScopeKeywords(x_lines))

\* The line numbers first .. last of a closed block.
LinesOf(b) == [k \in 1..(b[2] - b[1] + 1) |-> b[1] + k - 1]

\* The words of the classification, in the order the claim gives them.
ClassOrder == <<"IndexedLineSet", "Sphere", "IndexedFaceSet", "Viewpoint">>

\* The first word of ClassOrder, from position k on, that some line of the
\* block holds; "" when none does.
RECURSIVE FirstMatch(_, _, _)
FirstMatch(lines, b, k) ==
    IF k > Len(ClassOrder) THEN ""
    ELSE IF \E n \in b[1]..b[2] : ClassOrder[k] \in lines[n].has
         THEN ClassOrder[k]
         ELSE FirstMatch(lines, b, k + 1)

\* The closed blocks of one class, in the order they were closed.
OfClass(lines, closed, word) ==
    LET mine == SelectSeq(closed, LAMBDA b : FirstMatch(lines, b, 1) = word)
    IN  [k \in 1..Len(mine) |-> LinesOf(mine[k])]

\* C18: every block extract_blocks closes is filed by the first of
\* IndexedLineSet, Sphere, IndexedFaceSet, Viewpoint it contains, in exactly
\* one place: the track, marker and solid lists hold the blocks of their class
\* in file order, the viewpoint slot holds the last viewpoint block closed (or
\* nothing), and a block holding none of the four words is in no list.
C18_FirstMatchFiles ==
    LET views == OfClass(x_lines, x_closed, "Viewpoint")
    IN  /\ x_out.polyline = OfClass(x_lines, x_closed, "IndexedLineSet")
        /\ x_out.marker = OfClass(x_lines, x_closed, "Sphere")
        /\ x_out.solid = OfClass(x_lines, x_closed, "IndexedFaceSet")
        /\ x_out.viewpoint = IF views = <<>> THEN <<>> ELSE <<views[Len(views)]>>
        /\ Len(x_out.polyline) + Len(x_out.marker) + Len(x_out.solid) + Len(views)
             + Len(OfClass(x_lines, x_closed, "")) = Len(x_closed)

\* A block holding both Sphere and IndexedLineSet was filed as a track, after
\* the call returned.
C18_Witness ==
    /\ x_pc = "done"
    /\ \E k \in 1..Len(x_closed) :
          /\ \E n \in x_closed[k][1]..x_closed[k][2] : "Sphere" \in x_lines[n].has
          /\ \E j \in 1..Len(x_out.polyline) : x_out.polyline[j] = LinesOf(x_closed[k])
    /\ x_out.marker = <<>>

\* Two viewpoint blocks and one unrecognized block were closed: the slot holds
\* the second viewpoint block.
C18_WitnessViewpoints ==
    /\ x_pc = "done"
    /\ Len(OfClass(x_lines, x_closed, "Viewpoint")) = 2
    /\ Len(OfClass(x_lines, x_closed, "")) = 1
    /\ x_out.viewpoint = <<OfClass(x_lines, x_closed, "Viewpoint")[2]>>

-----------------------------------------------------------------------------
(* HepRepParser: create_meshes, reduce_components / combine_dicts and       *)
(* draw_mesh, on the component tree populate_meshes has filled.  A          *)
(* component is a record of the template's fields; its children are a       *)
(* sequence of components.  mesh is <<>> for None and <<m>> for a mesh m.    *)

\* Bounds of the component trees.
MaxChildren == 3
MaxPrims == 2

\* create_cylinder_mesh's default num_segments.
NumSegments == 20

\* initialize_template(name); the uuid is given by the caller.
Template(name, id) ==
    [name |-> name, id |-> id, shape |-> "None", points |-> <<>>,
     mesh_points |-> <<>>, mesh_inds |-> <<>>, colors |-> <<>>, visible |-> FALSE,
     scalars |-> <<>>, is_dot |-> FALSE, mesh |-> <<>>, children |-> <<>>]

\* list * n
Repeat(xs, n) == Concatenate([i \in 1..n |-> xs])

\* The six quads over the eight points of a prism.
PrismFacesBad ==
    <<4, 0, 1, 2, 3,
      4, 4, 5, 1, 0,
      4, 7, 4, 0, 3,
      4, 6, 7, 3, 2,
      4, 5, 6, 2, 1,
      4, 4, 5, 6, 7>>

PrismFaces ==
    <<4, 0, 1, 2, 3,
      4, 4, 5, 1, 0,
      4, 7, 4, 0, 3,
      4, 6, 7, 3, 2,
      4, 5, 6, 2, 1,
      4, 7, 6, 5, 4>>

\* create_cylinder_mesh: 2 * num_segments points, the first ring around p1
\* and the second around p2, and one quad per segment.  A computed point is
\* tagged by the primitive of p1 and its position on the rings.
CreateCylinderMeshBad(p1, p2, r1, r2, num_segments) ==
    [points |-> [i \in 1..(2 * num_segments + 2) |-> <<p1[1], p1[2], 100 + i>>],
     inds   |-> Concatenate([s \in 1..num_segments |->
                    LET i      == s - 1
                        next_i == (i + 1) % num_segments
                    IN  <<4, i, next_i, next_i + num_segments, i + num_segments,
                          3, i, next_i, 2 * num_segments,
                          3, i + num_segments, next_i + num_segments,
                             2 * num_segments + 1>>])]

CreateCylinderMesh(p1, p2, r1, r2, num_segments) ==
    [points |-> [i \in 1..(2 * num_segments) |-> <<p1[1], p1[2], 100 + i>>],
     inds   |-> Concatenate([s \in 1..num_segments |->
                    LET i      == s - 1
                        next_i == (i + 1) % num_segments
                    IN  <<4, i, next_i, next_i + num_segments, i + num_segments>>])]

\* The Polygon and Line loops: one record per primitive over consecutive
\* indices of the concatenated points.
RECURSIVE PrimitiveRecords(_, _)
PrimitiveRecords(points, this_ind) ==
    IF points = <<>> THEN <<>>
    ELSE <<Len(Head(points))>>
         \o [t \in 1..Len(Head(points)) |-> this_ind + t - 1]
         \o PrimitiveRecords(Tail(points), this_ind + Len(Head(points)))

\* The body of create_meshes's loop for one component (its children done).
CreateMesh(comp) ==
    IF comp.shape = "Prism"
    THEN [comp EXCEPT !.mesh_points = comp.points,
                      !.mesh_inds = <<PrismFaces>>,
                      !.scalars = <<Repeat(comp.colors, Len(comp.points[1]))>>]
    ELSE IF comp.shape = "Cylinder"
    THEN LET cyl(q) == CreateCylinderMesh(comp.points[q][3], comp.points[q][4],
                                          comp.points[q][1], comp.points[q][2],
                                          NumSegments)
         IN  [comp EXCEPT
                !.mesh_points = [q \in 1..Len(comp.points) |-> cyl(q).points],
                !.mesh_inds = [q \in 1..Len(comp.points) |-> cyl(q).inds],
                !.scalars = [q \in 1..Len(comp.points) |->
                                Repeat(comp.colors, Len(cyl(q).points))]]
    ELSE IF comp.shape \in {"Polygon", "Line"}
    THEN [comp EXCEPT !.mesh_points = <<Concatenate(comp.points)>>,
                      !.mesh_inds = <<PrimitiveRecords(comp.points, 0)>>,
                      !.scalars = <<Repeat(comp.colors, Len(Concatenate(comp.points)))>>]
    ELSE IF comp.shape = "Point"
    THEN [comp EXCEPT !.mesh_points = comp.points,
                      !.mesh_inds = [q \in 1..Len(comp.points) |-> <<>>],
                      !.scalars = [q \in 1..Len(comp.points) |->
                                      Repeat(comp.colors, Len(comp.points[q]))]]
    ELSE comp

\* create_meshes: children first, then the component.
RECURSIVE CreateMeshes(_)
CreateMeshes(components) ==
    [i \in 1..Len(components) |->
        CreateMesh([components[i] EXCEPT !.children = CreateMeshes(@)])]

\* The names of the children in order of first occurrence.
RECURSIVE NamesOf(_, _)
NamesOf(children, names) ==
    IF children = <<>> THEN names
    ELSE NamesOf(Tail(children),
                 IF \E n \in 1..Len(names) : names[n] = Head(children).name
                 THEN names ELSE Append(names, Head(children).name))

\* [child for child in comp['children'] if child['name'] == name]
RECURSIVE ToCombine(_, _)
ToCombine(children, name) ==
    IF children = <<>> THEN <<>>
    ELSE (IF Head(children).name = name THEN <<Head(children)>> ELSE <<>>)
         \o ToCombine(Tail(children), name)

\* The uuid of a component made by combine_dicts: unlike every other id.
CombinedId(dicts) == <<-1>> \o Concatenate([j \in 1..Len(dicts) |-> dicts[j].id])

\* combine_dicts, first loop, for one dictionary: no list index runs out.
CombineSelfOk(d) ==
    Len(d.mesh_points) > 1 =>
        /\ Len(d.mesh_inds) >= Len(d.mesh_points)
        /\ Len(d.scalars) >= Len(d.mesh_points)

\* combine_dicts, first loop, for one dictionary.
CombineSelf(d) ==
    IF Len(d.mesh_points) > 1
    THEN LET n == Len(d.mesh_points)
             r == CombineMeshArrays(SubSeq(d.mesh_points, 1, n),
                                    SubSeq(d.mesh_inds, 1, n),
                                    SubSeq(d.scalars, 1, n))
         IN  [d EXCEPT !.mesh_points = <<r.points>>,
                       !.mesh_inds = <<r.cells>>,
                       !.scalars = <<r.colors>>]
    ELSE d

\* combine_dicts raises no IndexError: every dictionary passes the first loop
\* and then has an entry 0 in each of its three lists.
CombineDictsOk(dicts) ==
    \A j \in 1..Len(dicts) :
        /\ CombineSelfOk(dicts[j])
        /\ Len(CombineSelf(dicts[j]).mesh_points) >= 1
        /\ Len(CombineSelf(dicts[j]).mesh_inds) >= 1
        /\ Len(CombineSelf(dicts[j]).scalars) >= 1

\* combine_dicts
CombineDicts(dicts) ==
    IF Len(dicts) < 2 THEN dicts[1]
    ELSE LET ds == [j \in 1..Len(dicts) |-> CombineSelf(dicts[j])]
             r  == CombineMeshArrays([j \in 1..Len(ds) |-> ds[j].mesh_points[1]],
                                     [j \in 1..Len(ds) |-> ds[j].mesh_inds[1]],
                                     [j \in 1..Len(ds) |-> ds[j].scalars[1]])
         IN  [Template(dicts[1].name, CombinedId(dicts)) EXCEPT
                !.shape = dicts[1].shape,
                !.visible = dicts[1].visible,
                !.is_dot = dicts[1].is_dot,
                !.mesh_points = <<r.points>>,
                !.mesh_inds = <<r.cells>>,
                !.scalars = <<r.colors>>,
                !.children = Concatenate([j \in 1..Len(dicts) |-> dicts[j].children])]

\* reduce_components, the body of `if len(comp['children']) > 1`.
Reduced(children) ==
    LET names == NamesOf(children, <<>>)
    IN  [g \in 1..Len(names) |->
            IF Len(ToCombine(children, names[g])) > 1
            THEN CombineDicts(ToCombine(children, names[g]))
            ELSE ToCombine(children, names[g])[1]]

ReducedOk(children) ==
    \A g \in 1..Len(NamesOf(children, <<>>)) :
        LET to_combine == ToCombine(children, NamesOf(children, <<>>)[g])
        IN  Len(to_combine) > 1 => CombineDictsOk(to_combine)

\* reduce_components
RECURSIVE ReduceComponents(_)
ReduceComponents(components) ==
    [i \in 1..Len(components) |->
        [components[i] EXCEPT !.children =
            ReduceComponents(IF Len(@) > 1 THEN Reduced(@) ELSE @)]]

\* reduce_components runs to its end.
RECURSIVE ReduceOk(_)
ReduceOk(components) ==
    \A i \in 1..Len(components) :
        LET children == components[i].children
        IN  IF Len(children) > 1
            THEN ReducedOk(children) /\ ReduceOk(Reduced(children))
            ELSE ReduceOk(children)

\* draw_mesh draws the component: a recognized shape that is visible.
DrawnBad(comp) ==
    /\ comp.shape \in {"Prism", "Cylinder", "Polygon", "Point", "Line"}
    /\ Len(comp.mesh_points) > 0

Drawn(comp) ==
    /\ comp.shape \in {"Prism", "Cylinder", "Polygon", "Point", "Line"}
    /\ comp.visible
    /\ Len(comp.mesh_points) > 0

\* The loops of draw_mesh index mesh_inds (not for a Point) and scalars by
\* the position of each entry of mesh_points.
DrawOk(comp) ==
    Drawn(comp) =>
        /\ comp.shape # "Point" => Len(comp.mesh_inds) >= Len(comp.mesh_points)
        /\ Len(comp.scalars) >= Len(comp.mesh_points)

\* The body of draw_mesh's loop for one component: the mesh left in
\* comp['mesh'] is the one built from the last entry.
DrawOne(comp) ==
    IF Drawn(comp)
    THEN LET n == Len(comp.mesh_points)
         IN  [comp EXCEPT !.mesh =
                <<[points |-> comp.mesh_points[n],
                   cells  |-> IF comp.shape = "Point" THEN <<>> ELSE comp.mesh_inds[n],
                   colors |-> comp.scalars[n]]>>]
    ELSE comp

\* draw_mesh
RECURSIVE DrawMesh(_)
DrawMesh(components) ==
    [i \in 1..Len(components) |->
        DrawOne([components[i] EXCEPT !.children = DrawMesh(@)])]

RECURSIVE DrawMeshOk(_)
DrawMeshOk(components) ==
    \A i \in 1..Len(components) :
        DrawMeshOk(components[i].children) /\ DrawOk(components[i])

\* The trees populate_meshes hands over: the file's component with up to
\* MaxChildren children named "A" or "B".  Children of one name come from
\* instances of one type description: same shape, same number of primitives.

ChildNames == {"A", "B"}

\* The points of primitive q of the component numbered c, as populate_meshes
\* reads them: eight corners of a prism, two radii and two end points of a
\* cylinder, the corners of a polygon, one marker, the ends of a line.
PrimitivePoints(shape, c, q) ==
    [k \in 1..(CASE shape = "Prism" -> 8
                 [] shape = "Cylinder" -> 4
                 [] shape = "Polygon" -> 4
                 [] shape = "Point" -> 1
                 [] shape = "Line" -> 2
                 [] OTHER -> 0) |-> <<c, q, k>>]

\* What the attributes of one type description give.
TypeKinds(max_prims) ==
    {[shape |-> "None", nprims |-> 0]}
    \cup [shape : {"Prism", "Cylinder", "Polygon", "Point", "Line"},
          nprims : 1..max_prims]

\* The component of child number c of the file's component; with nested set,
\* it has one child of its own, a polygon named "G".
HepChild(c, name, kind, nested) ==
    [Template(name, <<c>>) EXCEPT
        !.shape = kind.shape,
        !.points = [q \in 1..kind.nprims |-> PrimitivePoints(kind.shape, c, q)],
        !.colors = <<<<"color", name>>>>,
        !.is_dot = (kind.shape = "Point"),
        !.visible = TRUE,
        !.children =
            IF nested
            THEN <<[Template("G", <<c, 1>>) EXCEPT
                      !.shape = "Polygon",
                      !.points = <<PrimitivePoints("Polygon", 10 + c, 1)>>,
                      !.colors = <<<<"color", "G">>>>,
                      !.visible = TRUE]>>
            ELSE <<>>]

\* The tree of a file with children of the given names and kinds.
HepInput(names, kinds, nested) ==
    <<[Template("file", <<0>>) EXCEPT !.children =
         [c \in 1..Len(names) |-> HepChild(c, names[c], kinds[names[c]], nested)]]>>

HepInit ==
    /\ \E names \in SeqsUpTo(ChildNames, MaxChildren) :
          \E kinds \in [ChildNames -> TypeKinds(MaxPrims)], nested \in BOOLEAN :
             h_in = HepInput(names, kinds, nested)
    /\ h_comps = h_in
    /\ h_pc = "create"

\* parse_file: self.create_meshes(self.components)
HepCreateMeshes ==
    /\ h_pc = "create"
    /\ h_comps' = CreateMeshes(h_comps)
    /\ h_pc' = "reduce"
    /\ UNCHANGED h_in

\* parse_file: self.reduce_components(self.components); an IndexError ends
\* the parse.
HepReduceComponents ==
    /\ h_pc = "reduce"
    /\ IF ReduceOk(h_comps)
       THEN h_comps' = ReduceComponents(h_comps) /\ h_pc' = "draw"
       ELSE h_comps' = h_comps /\ h_pc' = "failed_reduce"
    /\ UNCHANGED h_in

\* parse_file: self.draw_mesh(self.components)
HepDrawMesh ==
    /\ h_pc = "draw"
    /\ IF DrawMeshOk(h_comps)
       THEN h_comps' = DrawMesh(h_comps) /\ h_pc' = "done"
       ELSE h_comps' = h_comps /\ h_pc' = "failed_draw"
    /\ UNCHANGED h_in

InitHepRep == CombineOff /\ BlockOff /\ ExtractOff /\ HepInit /\ ViewerOff /\ SessionOff /\ VrmlOff

NextHepRep ==
    \/ HepCreateMeshes /\ UNCHANGED <<combineVars, blockVars, extractVars, viewerVars, sessionVars, vrmlVars>>
    \/ HepReduceComponents /\ UNCHANGED <<combineVars, blockVars, extractVars, viewerVars, sessionVars, vrmlVars>>
    \/ HepDrawMesh /\ UNCHANGED <<combineVars, blockVars, extractVars, viewerVars, sessionVars, vrmlVars>>

SpecHepRep == InitHepRep /\ [][NextHepRep]_vars

\* The points and the topology records a component holds in its buffers.
PointsHeld(d) == Len(Concatenate(d.mesh_points))

RecordsHeld(d) == Len(Concatenate([e \in 1..Len(d.mesh_inds) |-> RecordsOf(d.mesh_inds[e])]))

\* C4: once the reduction pass has run on a component with K >= 2 same-named
\* children that each hold P points and R topology records, the pass has
\* ended without error and the component has exactly one child of that name,
\* whose point buffer has K x P points, whose colour buffer has K x P entries
\* and whose topology has K x R records with every index valid for the
\* combined point buffer.
C4_ReductionCounts ==
    h_pc \in {"draw", "done", "failed_reduce", "failed_draw"} =>
        LET before == CreateMeshes(h_in)[1].children
            after  == h_comps[1].children
        IN  \A name \in ChildNames :
                LET group == ToCombine(before, name)
                    K     == Len(group)
                IN  K >= 2 =>
                      LET P == PointsHeld(group[1])
                          R == RecordsHeld(group[1])
                      IN  (\A j \in 1..K : PointsHeld(group[j]) = P
                                           /\ RecordsHeld(group[j]) = R)
                          => /\ h_pc # "failed_reduce"
                             /\ Len(ToCombine(after, name)) = 1
                             /\ LET c == ToCombine(after, name)[1]
                                IN  /\ Len(c.mesh_points) = 1
                                    /\ Len(c.mesh_points[1]) = K * P
                                    /\ Len(c.scalars) = 1
                                    /\ Len(c.scalars[1]) = K * P
                                    /\ Len(c.mesh_inds) = 1
                                    /\ Len(RecordsOf(c.mesh_inds[1])) = K * R
                                    /\ IndicesValid(c.mesh_inds[1], K * P)

\* C16: components without a recognized DrawAs value end parse_file with mesh
\* None and cause no error, also when the reduction pass merges several of
\* them that share a name: the parse of a file whose types all lack a
\* recognized DrawAs value ends without an exception and leaves every
\* component without a mesh.
C16_ShapelessIsNull ==
    LET types == h_in[1].children
    IN  (\A c \in 1..Len(types) :
            types[c].shape = "None" /\ types[c].children = <<>>)
        => /\ h_pc \notin {"failed_reduce", "failed_draw"}
           /\ h_pc = "done" =>
                 /\ h_comps[1].mesh = <<>>
                 /\ \A c \in 1..Len(h_comps[1].children) :
                        h_comps[1].children[c].mesh = <<>>

-----------------------------------------------------------------------------
(* HepRepParser on files whose types differ in their Visibility attribute.  *)

\* The Visibility attribute of a type: its value, or "none" when the type
\* has no such attribute.
VisibilityValues == {"True", "False", "none"}

\* populate_meshes: components[index]['visible'] = child.attrib['value'] == 'True';
\* without the attribute the template's value stays.
VisibleField(att) ==
    IF att = "none" THEN Template("", <<>>).visible ELSE att = "True"

\* The tree of a file whose child number c has the Visibility attribute atts[c].
HepInputVis(names, kinds, nested, atts) ==
    LET file == HepInput(names, kinds, nested)[1]
    IN  <<[file EXCEPT !.children =
             [c \in 1..Len(names) |->
                 [file.children[c] EXCEPT !.visible = VisibleField(atts[c])]]]>>

\* The types of these files: those named "A" of any kind with one primitive,
\* those named "B" prisms.
VisKinds ==
    {kinds \in [ChildNames -> TypeKinds(1)] : kinds["B"].shape = "Prism"}

HepInitVis ==
    /\ \E names \in SeqsUpTo(ChildNames, MaxChildren) :
          \E kinds \in VisKinds, atts \in [1..Len(names) -> VisibilityValues] :
             h_in = HepInputVis(names, kinds, FALSE, atts)
    /\ h_comps = h_in
    /\ h_pc = "create"

InitHepVis == CombineOff /\ BlockOff /\ ExtractOff /\ HepInitVis /\ ViewerOff /\ SessionOff /\ VrmlOff

NextHepVis ==
    \/ HepCreateMeshes /\ UNCHANGED <<combineVars, blockVars, extractVars, viewerVars, sessionVars, vrmlVars>>
    \/ HepReduceComponents /\ UNCHANGED <<combineVars, blockVars, extractVars, viewerVars, sessionVars, vrmlVars>>
    \/ HepDrawMesh /\ UNCHANGED <<combineVars, blockVars, extractVars, viewerVars, sessionVars, vrmlVars>>

SpecHepVis == InitHepVis /\ [][NextHepVis]_vars

-----------------------------------------------------------------------------
(* VRMLParser.parse_file: read_file, extract_blocks, create_meshes and the  *)
(* root with its three children.  A line of the file carries what the block *)
(* extractor looks at (kw, open, close, has) and what the block parsers     *)
(* look at (kind, toks).                                                    *)

\* Bound of the number of chunks a file is written with.
MaxChunks == 3

VrmlLine(kw, open, close, has, kind, toks) ==
    [kw |-> kw, open |-> open, close |-> close, has |-> has,
     kind |-> kind, toks |-> toks]

\* A line without braces or keywords that a block parser reads.
FieldLine(line) == VrmlLine("", 0, 0, {}, line.kind, line.toks)

\* Shape { ... geometry IndexedLineSet { ... } }: a track of n points.
TrackChunk(n) ==
    <<VrmlLine("Shape", 1, 0, {}, "other", <<>>),
      VrmlLine("", 1, 0, {"IndexedLineSet"}, "other", <<>>),
      FieldLine(ColorLine(<<0, 1, 0>>)),
      FieldLine(PointOpen)>>
    \o [p \in 1..n |-> FieldLine(DataLine(<<p, p, p>>))]
    \o <<FieldLine(BracketClose),
         FieldLine(IndexOpen),
         FieldLine(DataLine([p \in 1..n |-> p - 1] \o <<-1>>)),
         FieldLine(BracketClose),
         VrmlLine("", 0, 2, {}, "other", <<>>)>>

\* Shape { ... geometry IndexedFaceSet { ... } }: one triangle.
SolidChunk ==
    <<VrmlLine("Shape", 1, 0, {}, "other", <<>>),
      VrmlLine("", 1, 0, {"IndexedFaceSet"}, "other", <<>>),
      FieldLine(TransparencyLine(0)),
      FieldLine(PointOpen),
      FieldLine(DataLine(<<0, 0, 0>>)),
      FieldLine(DataLine(<<1, 0, 0>>)),
      FieldLine(DataLine(<<0, 1, 0>>)),
      FieldLine(BracketClose),
      FieldLine(IndexOpen),
      FieldLine(DataLine(<<0, 1, 2, -1>>)),
      FieldLine(BracketClose),
      VrmlLine("", 0, 2, {}, "other", <<>>)>>

\* Anchor { translation x y z ... geometry Sphere { radius r } }: a marker.
MarkerChunk ==
    <<VrmlLine("Anchor", 1, 0, {}, "other", <<>>),
      VrmlLine("", 0, 0, {}, "translation", <<1, 2, 3>>),
      VrmlLine("", 1, 1, {"Sphere"}, "radius", <<1>>),
      VrmlLine("", 0, 1, {}, "other", <<>>)>>

\* Viewpoint { ... }
ViewpointChunk ==
    <<VrmlLine("Viewpoint", 1, 0, {"Viewpoint"}, "other", <<>>),
      VrmlLine("", 0, 1, {}, "other", <<>>)>>

\* Shape { } with none of the four words: an unrecognized block.
PlainChunk ==
    <<VrmlLine("Shape", 1, 0, {}, "other", <<>>),
      VrmlLine("", 0, 1, {}, "other", <<>>)>>

\* # a comment line
CommentChunk == <<VrmlLine("", 0, 0, {}, "comment", <<>>)>>

\* Shape { appearance Appearance { }: a block that lacks its last brace.
OpenChunk ==
    <<VrmlLine("Shape", 1, 0, {}, "other", <<>>),
      VrmlLine("", 1, 0, {}, "other", <<>>),
      VrmlLine("", 0, 1, {}, "other", <<>>)>>

\* The chunks whose blocks all close, and all chunks.
ClosedChunks ==
    {TrackChunk(1), TrackChunk(2), SolidChunk, MarkerChunk, ViewpointChunk,
     PlainChunk, CommentChunk}

AnyChunks == ClosedChunks \cup {OpenChunk}

\* utils.read_file: the lines of the file that do not start with '#'.
ReadFile(file) == SelectSeq(file, LAMBDA line : line.kind # "comment")

\* block_content: the text of a block kept by extract_blocks.
BlockLines(lines, block) == [k \in 1..Len(block) |-> lines[block[k]]]

\* parse_marker_block: one iteration of the loop.
ParseMarkerLine(st, line) ==
    IF line.kind = "translation"
    THEN IF Len(line.toks) = 3 THEN [st EXCEPT !.coords = line.toks] ELSE st
    ELSE IF line.kind = "diffuseColor" THEN [st EXCEPT !.color = line.toks]
    ELSE IF line.kind = "transparency" THEN [st EXCEPT !.transparency = line.toks[1]]
    ELSE IF line.kind = "radius" THEN [st EXCEPT !.radius = line.toks[1]]
    ELSE st

RECURSIVE ParseMarkerFrom(_, _)
ParseMarkerFrom(st, lines) ==
    IF lines = <<>> THEN st
    ELSE ParseMarkerFrom(ParseMarkerLine(st, Head(lines)), Tail(lines))

\* process_marker_block: centre, radius and the colour with alpha
\* 1 - transparency.
ProcessMarkerBlock(block) ==
    LET st == ParseMarkerFrom([coords |-> <<>>, color |-> <<1, 1, 1>>,
                               transparency |-> 0, radius |-> 1], block)
    IN  [center |-> st.coords, radius |-> st.radius,
         color |-> Append(st.color, 1 - st.transparency)]

\* The per-block results of build_mesh's loop.
Processed(lines, blocks, which) ==
    [i \in 1..Len(blocks) |->
        IF which = "polyline"
        THEN ProcessPolylineBlock(BlockLines(lines, blocks[i]))
        ELSE ProcessSolidBlock(BlockLines(lines, blocks[i]))]

\* build_mesh raises: int() met a word in an index list, or np.concatenate
\* met point arrays of different dimensions (a block without coordinates
\* next to one with coordinates).
BuildMeshRaises(lines, blocks, which) ==
    \/ \E i \in 1..Len(blocks) :
          IF which = "polyline"
          THEN ParsePolylineBlock(BlockLines(lines, blocks[i])).error
          ELSE ParseSolidBlock(BlockLines(lines, blocks[i])).error
    \/ \E i, j \in 1..Len(blocks) :
          /\ Processed(lines, blocks, which)[i].points = <<>>
          /\ Processed(lines, blocks, which)[j].points # <<>>

\* build_mesh: None for no blocks, else the mesh of the combined arrays.
BuildMeshBad(lines, blocks, which) ==
    LET done == Processed(lines, blocks, which)
        combined ==
            CombineMeshArrays(
                [i \in 1..Len(blocks) |-> done[i].points],
                [i \in 1..Len(blocks) |-> done[i].cells],
                [i \in 1..Len(blocks) |->
                    [p \in 1..Len(done[i].points) |-> done[i].color]])
    IN  <<[which |-> which, points |-> combined.points,
           cells |-> combined.cells, color |-> combined.colors]>>

BuildMesh(lines, blocks, which) ==
    LET done == Processed(lines, blocks, which)
        combined ==
            CombineMeshArrays(
                [i \in 1..Len(blocks) |-> done[i].points],
                [i \in 1..Len(blocks) |-> done[i].cells],
                [i \in 1..Len(blocks) |->
                    [p \in 1..Len(done[i].points) |-> done[i].color]])
    IN  IF Len(blocks) = 0 THEN <<>>
        ELSE <<[which |-> which, points |-> combined.points,
                cells |-> combined.cells, color |-> combined.colors]>>

\* build_markers raises: pv.Sphere got a centre that is not a point.
BuildMarkersRaises(lines, blocks) ==
    \E i \in 1..Len(blocks) :
        ProcessMarkerBlock(BlockLines(lines, blocks[i])).center = <<>>

\* build_markers: None for no blocks, else the spheres combined.
BuildMarkers(lines, blocks) ==
    IF Len(blocks) = 0 THEN <<>>
    ELSE <<[which |-> "marker",
            spheres |-> [i \in 1..Len(blocks) |->
                            ProcessMarkerBlock(BlockLines(lines, blocks[i]))]]>>

\* create_meshes: the three meshes in the order polyline, marker, solid.
VrmlCreateMeshes(lines, out) ==
    <<BuildMesh(lines, out.polyline, "polyline"),
      BuildMarkers(lines, out.marker),
      BuildMesh(lines, out.solid, "solid")>>

VrmlCreateMeshesRaises(lines, out) ==
    \/ BuildMeshRaises(lines, out.polyline, "polyline")
    \/ BuildMarkersRaises(lines, out.marker)
    \/ BuildMeshRaises(lines, out.solid, "solid")

\* names = ['Trajectories', 'Step Markers', 'Geometry']
CategoryNames == <<"Trajectories", "Step Markers", "Geometry">>

\* The root template and its three children; the uuids are 1 for the root
\* and 2, 3, 4 for the children, in the order the templates are made.
VrmlRoot(file_name, meshes) ==
    [Template(file_name, 1) EXCEPT
        !.children = [i \in 1..3 |->
                         [Template(CategoryNames[i], 1 + i) EXCEPT !.mesh = meshes[i]]]]

\* The texts made of the given chunks.
RECURSIVE ChunkTexts(_, _)
ChunkTexts(chunks, n) ==
    IF n = 0 THEN {<<>>}
    ELSE ChunkTexts(chunks, n - 1)
         \cup {c \o t : c \in chunks, t \in ChunkTexts(chunks, n - 1)}

\* parse_file up to the call of extract_blocks, on a file of the given chunks.
VrmlStart(chunks) ==
    /\ \E file \in ChunkTexts(chunks, MaxChunks) : x_lines = ReadFile(file)
    /\ x_i = 0
    /\ x_inside = FALSE
    /\ x_brace = 0
    /\ x_block = <<>>
    /\ x_out = NoBlocks
    /\ x_closed = <<>>
    /\ x_pc = "loop"
    /\ p_components = <<>>
    /\ p_pc = "extract"

\* parse_file from the return of extract_blocks on: create_meshes and the
\* root, or the exception that ends the parse.
VrmlFinish ==
    /\ p_pc = "extract"
    /\ x_pc = "done"
    /\ IF VrmlCreateMeshesRaises(x_lines, x_out)
       THEN p_pc' = "raised" /\ UNCHANGED p_components
       ELSE /\ p_components' = <<VrmlRoot("sample", VrmlCreateMeshes(x_lines, x_out))>>
            /\ p_pc' = "done"
    /\ UNCHANGED extractVars

InitVrml ==
    CombineOff /\ BlockOff /\ HepOff /\ ViewerOff /\ SessionOff /\ VrmlStart(ClosedChunks)

NextVrml ==
    \/ ExtractLine /\ UNCHANGED <<combineVars, blockVars, hepVars, viewerVars, sessionVars, vrmlVars>>
    \/ ExtractReturn /\ UNCHANGED <<combineVars, blockVars, hepVars, viewerVars, sessionVars, vrmlVars>>
    \/ VrmlFinish /\ UNCHANGED <<combineVars, blockVars, hepVars, viewerVars, sessionVars>>

SpecVrml == InitVrml /\ [][NextVrml]_vars

InitVrmlAny ==
    CombineOff /\ BlockOff /\ HepOff /\ ViewerOff /\ SessionOff /\ VrmlStart(AnyChunks)

NextVrmlAny ==
    \/ ExtractLine /\ UNCHANGED <<combineVars, blockVars, hepVars, viewerVars, sessionVars, vrmlVars>>
    \/ ExtractReturn /\ UNCHANGED <<combineVars, blockVars, hepVars, viewerVars, sessionVars, vrmlVars>>
    \/ VrmlFinish /\ UNCHANGED <<combineVars, blockVars, hepVars, viewerVars, sessionVars>>

SpecVrmlAny == InitVrmlAny /\ [][NextVrmlAny]_vars

-----------------------------------------------------------------------------
(* Claims about VRMLParser.parse_file *)

\* The brace depth after line m, counted from line n on.
RECURSIVE DepthFrom(_, _, _)
DepthFrom(lines, n, m) ==
    IF m < n THEN 0
    ELSE DepthFrom(lines, n, m - 1) + lines[m].open - lines[m].close

\* Some keyword line opens a block after which the brace depth never returns
\* to 0.
HasUnclosedBlock(lines) ==
    \E n \in 1..Len(lines) :
        /\ StartsBlock(lines[n])
        /\ \A m \in n..Len(lines) : DepthFrom(lines, n, m) # 0

\* C13: parsing a VRML text with a block whose braces never close ends in a
\* parse error: parse_file does not return a result for it.
C13_UnclosedIsFatal ==
    HasUnclosedBlock(x_lines) => p_pc # "done"

C17_WitnessMixed ==
    /\ p_pc = "done"
    /\ Len(x_out.polyline) = 2
    /\ Len(x_out.solid) = 1
    /\ p_components[1].children[1].mesh # <<>>
    /\ p_components[1].children[2].mesh = <<>>
    /\ p_components[1].children[3].mesh # <<>>

-----------------------------------------------------------------------------
(* GeViewer: load_file and find_overlaps.  A component of the forest is a   *)
(* record [id, name, shape, mesh, children]; mesh is <<>> for None and      *)
(* <<m>> for a mesh m = [bounds, n_open_edges, is_all_triangles], where     *)
(* bounds is <<xmin, xmax, ymin, ymax, zmin, zmax>> as pyvista gives it.    *)

\* Bounds of the scenes and of the sampling.
MaxNodes == 3
MaxSamples == 2

\* The meshes of the scenes: boxes that overlap, touch, contain or equal one
\* another, closed or with open edges, made of quads or of triangles.
Box(xmin, xmax, ymin, ymax, zmin, zmax, open, tri) ==
    <<[bounds |-> <<xmin, xmax, ymin, ymax, zmin, zmax>>,
       n_open_edges |-> open, is_all_triangles |-> tri]>>

ComponentKinds ==
    { [shape |-> "Prism",    mesh |-> <<>>],
      [shape |-> "Point",    mesh |-> Box(0, 2, 0, 2, 0, 2, 0, TRUE)],
      [shape |-> "Line",     mesh |-> Box(1, 3, 0, 2, 0, 2, 0, TRUE)],
      [shape |-> "Prism",    mesh |-> Box(0, 2, 0, 2, 0, 2, 0, FALSE)],
      [shape |-> "Prism",    mesh |-> Box(1, 3, 0, 2, 0, 2, 0, FALSE)],
      [shape |-> "Polygon",  mesh |-> Box(2, 4, 0, 2, 0, 2, 0, TRUE)],
      [shape |-> "Prism",    mesh |-> Box(0, 1, 0, 1, 0, 1, 0, TRUE)],
      [shape |-> "Polygon",  mesh |-> Box(0, 2, 0, 2, 1, 3, 3, FALSE)],
      [shape |-> "Polygon",  mesh |-> Box(1, 3, 1, 3, 0, 2, 2, TRUE)] }

\* The children of p, in order, in the forest where par[i] is the parent of
\* component i (0 for a root) and kind[i] its shape and mesh; ids and names
\* are the numbers base + i.
RECURSIVE ChildrenOf(_, _, _, _, _)
ChildrenOf(p, par, kind, n, base) ==
    LET kids == SelectSeq([i \in 1..n |-> i], LAMBDA i : par[i] = p)
    IN  [k \in 1..Len(kids) |->
            [id |-> base + kids[k], name |-> ToString(base + kids[k]),
             shape |-> kind[kids[k]].shape, mesh |-> kind[kids[k]].mesh,
             children |-> ChildrenOf(kids[k], par, kind, n, base)]]

\* The ways of hanging n components: each below an earlier one or a root.
ParentChoices(n) == {q \in [1..n -> 0..n] : \A i \in 1..n : q[i] < i}

\* The components of a forest, parents before children.
RECURSIVE Flatten(_)
Flatten(components) ==
    IF components = <<>> THEN <<>>
    ELSE <<Head(components)>> \o Flatten(Head(components).children)
         \o Flatten(Tail(components))

ViewerInit ==
    /\ v_components = <<>>
    /\ v_plotter = {}
    /\ v_overlaps = <<>>
    /\ v_args = NoArgs
    /\ v_log = <<>>
    /\ v_ret = {}
    /\ v_pc = "ready"

\* load_file on a saved session: the components read are appended to the
\* forest.
LoadFile ==
    /\ v_pc # "off"
    /\ \E n \in 1..(MaxNodes - Len(Flatten(v_components))) :
         \E par \in ParentChoices(n), kind \in [1..n -> ComponentKinds] :
            LET new_components ==
                    ChildrenOf(0, par, kind, n, Len(Flatten(v_components)))
            IN  v_components' = v_components \o new_components
    /\ UNCHANGED <<v_plotter, v_overlaps, v_args, v_log, v_ret, v_pc>>

\* The tolerances of a call, as fractions num / den.
Tolerances == {[num |-> 0, den |-> 1], [num |-> 1, den |-> 2]}

\* is_mesh_inside: all six bounds compared non-strictly.
IsMeshInsideBad(mesh1, mesh2) ==
    LET bounds1 == mesh1.bounds
        bounds2 == mesh2.bounds
    IN  /\ bounds1[1] > bounds2[1] /\ bounds1[2] <= bounds2[2]
        /\ bounds1[3] >= bounds2[3] /\ bounds1[4] <= bounds2[4]
        /\ bounds1[5] >= bounds2[5] /\ bounds1[6] <= bounds2[6]

IsMeshInside(mesh1, mesh2) ==
    LET bounds1 == mesh1.bounds
        bounds2 == mesh2.bounds
    IN  /\ bounds1[1] >= bounds2[1] /\ bounds1[2] <= bounds2[2]
        /\ bounds1[3] >= bounds2[3] /\ bounds1[4] <= bounds2[4]
        /\ bounds1[5] >= bounds2[5] /\ bounds1[6] <= bounds2[6]

\* do_bounds_overlap: False as soon as, on one axis, one box begins where the
\* other ends or beyond.
DoBoundsOverlapBad(mesh1, mesh2) ==
    LET bounds1 == mesh1.bounds
        bounds2 == mesh2.bounds
    IN  ~ \/ bounds1[1] > bounds2[2] \/ bounds1[2] < bounds2[1]
          \/ bounds1[3] > bounds2[4] \/ bounds1[4] < bounds2[3]
          \/ bounds1[5] > bounds2[6] \/ bounds1[6] < bounds2[5]

DoBoundsOverlap(mesh1, mesh2) ==
    LET bounds1 == mesh1.bounds
        bounds2 == mesh2.bounds
    IN  ~ \/ bounds1[1] >= bounds2[2] \/ bounds1[2] <= bounds2[1]
          \/ bounds1[3] >= bounds2[4] \/ bounds1[4] <= bounds2[3]
          \/ bounds1[5] >= bounds2[6] \/ bounds1[6] <= bounds2[5]

\* mesh.triangulate(): a new mesh of triangles over the same surface, with
\* the same bounds and the same open edges.
Triangulate(mesh) == [mesh EXCEPT !.is_all_triangles = TRUE]

\* What the random sampling of get_overlap can give with n_samples points:
\* n_surviving points enclosed by mesh1, of which n_points are left after
\* the two filters on mesh2.
SamplingOutcomes(n_samples) ==
    {o \in [n_surviving : 0..n_samples, n_points : 0..n_samples] :
        o.n_points <= o.n_surviving}

\* get_overlap under one outcome of the sampling: the division by
\* n_surviving raises ZeroDivisionError when no point survived.
GetOverlap(mesh1, mesh2, tolerance, n_samples, outcome) ==
    [raised |-> (outcome.n_surviving = 0),
     n_points |-> outcome.n_points,
     n_surviving |-> outcome.n_surviving]

\* threshold = n_samples * tolerance; points.n_points > threshold
OverThresholdBad(n_points, n_samples, tolerance) ==
    n_points * tolerance.den >= n_samples * tolerance.num

OverThreshold(n_points, n_samples, tolerance) ==
    n_points * tolerance.den > n_samples * tolerance.num

\* The test both loops of find_overlaps apply to a component.
EligibleBad(comp) ==
    comp.mesh # <<>> /\ ~(comp.shape = "Point")

Eligible(comp) ==
    comp.mesh # <<>> /\ ~(comp.shape = "Point" \/ comp.shape = "Line")

\* comp2['id'] not in checked
NotIn(id, checked) == \A k \in 1..Len(checked) : checked[k] # id

\* check_for_overlaps(comp1, components): the pairs it submits to the tests,
\* in order; it goes down into the children of every comp2.
RECURSIVE CheckForOverlaps(_, _, _)
CheckForOverlaps(comp1, components, checked) ==
    IF components = <<>> THEN <<>>
    ELSE LET comp2 == Head(components)
         IN  (IF /\ Eligible(comp2)
                 /\ comp1.id # comp2.id
                 /\ NotIn(comp2.id, checked)
              THEN <<[comp1 |-> comp1, comp2 |-> comp2]>>
              ELSE <<>>)
             \o (IF Len(comp2.children) > 0
                 THEN CheckForOverlaps(comp1, comp2.children, checked)
                 ELSE <<>>)
             \o CheckForOverlaps(comp1, Tail(components), checked)

\* find_overlaps_recursive(components, level) from the i-th component on:
\* the pairs submitted, in order, and the list checked at the end.
RECURSIVE FindOverlapsRecursiveBad(_, _, _, _)
FindOverlapsRecursiveBad(components, i, level, checked) ==
    IF i > Len(components) THEN [pairs |-> <<>>, checked |-> checked]
    ELSE LET comp  == components[i]
             own   == IF Eligible(comp)
                      THEN CheckForOverlaps(comp, components, checked)
                      ELSE <<>>
             below == IF Len(comp.children) > 0
                      THEN FindOverlapsRecursiveBad(comp.children, 1, level + 1, checked)
                      ELSE [pairs |-> <<>>, checked |-> checked]
             after == Append(below.checked, comp.id)
             rest  == FindOverlapsRecursiveBad(components, i + 1, level, after)
         IN  [pairs |-> own \o below.pairs \o rest.pairs, checked |-> rest.checked]

RECURSIVE FindOverlapsRecursive(_, _, _, _)
FindOverlapsRecursive(components, i, level, checked) ==
    IF i > Len(components) THEN [pairs |-> <<>>, checked |-> checked]
    ELSE LET comp  == components[i]
             own   == IF Eligible(comp)
                      THEN CheckForOverlaps(comp, components, checked)
                      ELSE <<>>
             below == IF Len(comp.children) > 0
                      THEN FindOverlapsRecursive(comp.children, 1, level + 1, checked)
                      ELSE [pairs |-> <<>>, checked |-> checked]
             after == Append(below.checked, comp.id)
             rest  == IF level = 0
                      THEN [pairs |-> <<>>, checked |-> after]
                      ELSE FindOverlapsRecursive(components, i + 1, level, after)
         IN  [pairs |-> own \o below.pairs \o rest.pairs, checked |-> rest.checked]

\* The stage at which the body of check_for_overlaps leaves a pair, before
\* any sampling.
StageOf(mesh1, mesh2) ==
    IF IsMeshInside(mesh1, mesh2) THEN "inside"
    ELSE IF IsMeshInside(mesh2, mesh1) THEN "contains"
    ELSE IF ~DoBoundsOverlap(mesh1, mesh2) THEN "apart"
    ELSE IF mesh1.n_open_edges + mesh2.n_open_edges > 0 THEN "open"
    ELSE "sample"

\* The local meshes of a pair: triangulated unless already triangles.
LocalMesh(comp) ==
    IF ~comp.mesh[1].is_all_triangles THEN Triangulate(comp.mesh[1]) ELSE comp.mesh[1]

\* plotter.add_mesh returns a new actor.
NewActor(plotter) == CHOOSE a \in 1..(Cardinality(plotter) + 1) : a \notin plotter

\* One line of output.
Printed(line, who, other, n, of) ==
    [line |-> line, who |-> who, other |-> other, n |-> n, of |-> of]

\* The body of check_for_overlaps for one pair, on the call's state st =
\* [log, overlaps, plotter, overlapping_meshes, sampled, raised].
CheckPair(pair, st, tolerance, n_samples, outcomes) ==
    LET comp1 == pair.comp1
        comp2 == pair.comp2
        mesh1 == LocalMesh(comp1)
        mesh2 == LocalMesh(comp2)
        stage == StageOf(mesh1, mesh2)
        entry(calls, printed, n_points, flagged, actor) ==
            [id1 |-> comp1.id, id2 |-> comp2.id, calls |-> calls,
             printed |-> printed, n_points |-> n_points, flagged |-> flagged,
             actor |-> actor]
        inside   == <<"is_mesh_inside(mesh1, mesh2)">>
        contains == Append(inside, "is_mesh_inside(mesh2, mesh1)")
        apart    == Append(contains, "do_bounds_overlap")
        open     == Append(apart, "n_open_edges")
        sample   == Append(open, "get_overlap")
    IN  IF stage = "inside"
        THEN [st EXCEPT !.log = Append(@, entry(inside, <<>>, 0, FALSE, 0))]
        ELSE IF stage = "contains"
        THEN [st EXCEPT !.log = Append(@, entry(contains, <<>>, 0, FALSE, 0))]
        ELSE IF stage = "apart"
        THEN [st EXCEPT !.log = Append(@, entry(apart, <<>>, 0, FALSE, 0))]
        ELSE IF stage = "open"
        THEN [st EXCEPT !.log = Append(@, entry(open,
                <<Printed("unable to check", comp1.name, comp2.name, 0, 0),
                  IF mesh1.n_open_edges > 0
                  THEN Printed("open edges", comp1.name, "", mesh1.n_open_edges, 0)
                  ELSE Printed("open edges", comp2.name, "", mesh2.n_open_edges, 0)>>,
                0, FALSE, 0))]
        ELSE LET got == GetOverlap(mesh1, mesh2, tolerance, n_samples,
                                   outcomes[st.sampled + 1])
                 actor == NewActor(st.plotter)
             IN  IF got.raised
                 THEN [st EXCEPT !.log = Append(@, entry(sample, <<>>, 0, FALSE, 0)),
                                 !.sampled = @ + 1,
                                 !.raised = TRUE]
                 ELSE IF OverThreshold(got.n_points, n_samples, tolerance)
                 THEN [st EXCEPT
                         !.log = Append(@, entry(sample,
                                   <<Printed("may overlap", comp1.name, comp2.name,
                                             got.n_points, got.n_surviving)>>,
                                   got.n_points, TRUE, actor)),
                         !.overlapping_meshes = @ \o <<comp1.id, comp2.id>>,
                         !.overlaps = Append(@, actor),
                         !.plotter = @ \cup {actor},
                         !.sampled = @ + 1]
                 ELSE [st EXCEPT !.log = Append(@, entry(sample, <<>>,
                                                         got.n_points, FALSE, 0)),
                                 !.sampled = @ + 1]

\* The pairs in order, until one raises.
RECURSIVE CheckPairs(_, _, _, _, _)
CheckPairs(pairs, st, tolerance, n_samples, outcomes) ==
    IF pairs = <<>> \/ st.raised THEN st
    ELSE CheckPairs(Tail(pairs),
                    CheckPair(Head(pairs), st, tolerance, n_samples, outcomes),
                    tolerance, n_samples, outcomes)

\* The pairs of a call that go as far as get_overlap.
NumSampled(pairs) ==
    Cardinality({k \in 1..Len(pairs) :
        StageOf(LocalMesh(pairs[k].comp1), LocalMesh(pairs[k].comp2)) = "sample"})

\* np.unique(overlapping_meshes)
Unique(ids) == {ids[k] : k \in 1..Len(ids)}

\* The forest a call leaves behind when it has tested the given pairs:
\* mesh1 = comp1['mesh'] and mesh1 = mesh1.triangulate() bind a local name to
\* a new mesh, and no item of a component is assigned.
RECURSIVE ForestAfterBad(_, _)
ForestAfterBad(components, pairs) ==
    [k \in 1..Len(components) |->
        [components[k] EXCEPT
            !.mesh = IF \E j \in 1..Len(pairs) :
                           components[k].id \in {pairs[j].comp1.id, pairs[j].comp2.id}
                     THEN <<Triangulate(@[1])>> ELSE @,
            !.children = ForestAfterBad(@, pairs)]]

ForestAfter(components, pairs) == components

\* for actor in self.overlaps: self.plotter.remove_actor(actor)
RemoveOverlapsBad(plotter, overlaps) == plotter

RemoveOverlaps(plotter, overlaps) == plotter \ Unique(overlaps)

\* find_overlaps(tolerance, n_samples): one call, to its return or to the
\* exception that ends it.
FindOverlaps ==
    /\ v_pc # "off"
    /\ \E tolerance \in Tolerances, n_samples \in 1..MaxSamples :
         LET pairs == FindOverlapsRecursive(v_components, 1, 0, <<>>).pairs
             start == [log |-> <<>>, overlaps |-> <<>>,
                       plotter |-> RemoveOverlaps(v_plotter, v_overlaps),
                       overlapping_meshes |-> <<>>, sampled |-> 0, raised |-> FALSE]
         IN  \E outcomes \in [1..NumSampled(pairs) -> SamplingOutcomes(n_samples)] :
               LET end == CheckPairs(pairs, start, tolerance, n_samples, outcomes)
               IN  /\ v_args' = [tolerance |-> tolerance, n_samples |-> n_samples]
                   /\ v_log' = end.log
                   /\ v_overlaps' = end.overlaps
                   /\ v_plotter' = end.plotter
                   /\ v_ret' = IF end.raised THEN {} ELSE Unique(end.overlapping_meshes)
                   /\ v_pc' = IF end.raised THEN "raised" ELSE "returned"
                   /\ v_components' = ForestAfter(v_components, pairs)

InitViewer == CombineOff /\ BlockOff /\ ExtractOff /\ HepOff /\ ViewerInit /\ SessionOff /\ VrmlOff

NextViewer ==
    \/ LoadFile /\ UNCHANGED <<combineVars, blockVars, extractVars, hepVars, sessionVars, vrmlVars>>
    \/ FindOverlaps /\ UNCHANGED <<combineVars, blockVars, extractVars, hepVars, sessionVars, vrmlVars>>

SpecViewer == InitViewer /\ [][NextViewer]_vars

-----------------------------------------------------------------------------
(* Claims about find_overlaps *)

\* The component of the forest with the given id.
CompOf(id) ==
    LET all == Flatten(v_components)
    IN  all[CHOOSE k \in 1..Len(all) : all[k].id = id]

\* The bounds of the mesh of the component with the given id.
BoundsOf(id) == CompOf(id).mesh[1].bounds

\* The boxes share a volume: on each axis each begins before the other ends.
BoxesIntersect(b1, b2) ==
    \A a \in 0..2 : b1[2 * a + 1] < b2[2 * a + 2] /\ b2[2 * a + 1] < b1[2 * a + 2]

\* Box b1 lies within box b2, borders included.
BoxWithin(b1, b2) ==
    \A a \in 0..2 : b2[2 * a + 1] <= b1[2 * a + 1] /\ b1[2 * a + 2] <= b2[2 * a + 2]

\* The call made the named helper call for the pair of log entry e.
Called(e, what) == \E j \in 1..Len(e.calls) : e.calls[j] = what

\* The two ids of every flagged pair of the log.
FlaggedIds == UNION {{v_log[k].id1, v_log[k].id2} : k \in {j \in 1..Len(v_log) : v_log[j].flagged}}

\* C2: a pair that reaches get_overlap is flagged if and only if the number
\* of witness points is strictly greater than n_samples x tolerance; a
\* flagged pair has both ids added and exactly one witness actor stored; the
\* value returned is the set of the ids flagged during the call, so it never
\* has exactly one id.
C2_FlagIffOverThreshold ==
    /\ \A k \in 1..Len(v_log) :
          LET e == v_log[k]
          IN  /\ e.flagged => Called(e, "get_overlap")
              /\ Called(e, "get_overlap") =>
                    (e.flagged <=> e.n_points * v_args.tolerance.den
                                     > v_args.n_samples * v_args.tolerance.num)
              /\ e.flagged =>
                    /\ Cardinality({j \in 1..Len(v_overlaps) : v_overlaps[j] = e.actor}) = 1
                    /\ e.actor \in v_plotter
                    /\ \A j \in 1..Len(v_log) : (j # k /\ v_log[j].flagged) =>
                                                    v_log[j].actor # e.actor
                    /\ v_pc = "returned" => {e.id1, e.id2} \subseteq v_ret
    /\ Len(v_overlaps) = Cardinality({k \in 1..Len(v_log) : v_log[k].flagged})
    /\ v_pc = "returned" =>
          /\ v_ret = FlaggedIds
          /\ Cardinality(v_ret) # 1

\* A call returned after flagging one sampled pair and leaving alone another
\* whose witness points number exactly n_samples x tolerance.
C2_Witness ==
    /\ v_pc = "returned"
    /\ \E k \in 1..Len(v_log) : v_log[k].flagged
    /\ \E k \in 1..Len(v_log) :
          /\ Called(v_log[k], "get_overlap")
          /\ ~v_log[k].flagged
          /\ v_log[k].n_points > 0
          /\ v_log[k].n_points * v_args.tolerance.den
               = v_args.n_samples * v_args.tolerance.num
    /\ Cardinality(v_ret) = 2

\* C5: a tested pair whose bounding boxes do not intersect (apart, or
\* touching along a face) never has get_overlap called for it and is not
\* flagged; every id returned comes from a flagged pair whose boxes intersect.
C5_DisjointNeverSampled ==
    /\ \A k \in 1..Len(v_log) :
          LET e == v_log[k]
          IN  ~BoxesIntersect(BoundsOf(e.id1), BoundsOf(e.id2)) =>
                 /\ ~Called(e, "get_overlap")
                 /\ ~e.flagged
                 /\ e.actor = 0
    /\ \A id \in v_ret :
          \E k \in 1..Len(v_log) :
              /\ v_log[k].flagged
              /\ id \in {v_log[k].id1, v_log[k].id2}
              /\ BoxesIntersect(BoundsOf(v_log[k].id1), BoundsOf(v_log[k].id2))

\* A call tested a pair of closed meshes whose boxes touch along a face, and
\* went as far as do_bounds_overlap for it.
C5_Witness ==
    \E k \in 1..Len(v_log) :
        LET e  == v_log[k]
            b1 == BoundsOf(e.id1)
            b2 == BoundsOf(e.id2)
        IN  /\ ~BoxesIntersect(b1, b2)
            /\ b1[2] = b2[1] \/ b2[2] = b1[1]
            /\ CompOf(e.id1).mesh[1].n_open_edges = 0
            /\ CompOf(e.id2).mesh[1].n_open_edges = 0
            /\ e.calls[Len(e.calls)] = "do_bounds_overlap"

\* C6: a tested pair in which the box of one mesh lies within the box of the
\* other (equal boxes included) is left after the containment tests: no
\* do_bounds_overlap, no open-edge test, no get_overlap, and no flag.
C6_ContainedSkipped ==
    \A k \in 1..Len(v_log) :
        LET e  == v_log[k]
            b1 == BoundsOf(e.id1)
            b2 == BoundsOf(e.id2)
        IN  (BoxWithin(b1, b2) \/ BoxWithin(b2, b1)) =>
               /\ ~Called(e, "do_bounds_overlap")
               /\ ~Called(e, "n_open_edges")
               /\ ~Called(e, "get_overlap")
               /\ ~e.flagged
               /\ e.actor = 0
               /\ e.printed = <<>>

\* One call tested a pair with equal boxes and a pair in which the second
\* box lies strictly within the first, which takes the second containment test.
C6_Witness ==
    /\ \E k \in 1..Len(v_log) : BoundsOf(v_log[k].id1) = BoundsOf(v_log[k].id2)
    /\ \E k \in 1..Len(v_log) :
          /\ BoxWithin(BoundsOf(v_log[k].id2), BoundsOf(v_log[k].id1))
          /\ ~BoxWithin(BoundsOf(v_log[k].id1), BoundsOf(v_log[k].id2))
          /\ Len(v_log[k].calls) = 2

\* The open edges of the mesh of the component with the given id.
OpenEdgesOf(id) == CompOf(id).mesh[1].n_open_edges

\* C7: a tested pair in which a mesh has open edges is never flagged and
\* never reaches get_overlap, and when the pair comes to the open-edge test a
\* warning is printed for every open component of the pair, with its name
\* and its open-edge count.
C7_OpenEdgesWarned ==
    \A k \in 1..Len(v_log) :
        LET e == v_log[k]
        IN  (OpenEdgesOf(e.id1) > 0 \/ OpenEdgesOf(e.id2) > 0) =>
               /\ ~e.flagged
               /\ ~Called(e, "get_overlap")
               /\ Called(e, "n_open_edges") =>
                     \A id \in {e.id1, e.id2} :
                         OpenEdgesOf(id) > 0 =>
                            \E w \in 1..Len(e.printed) :
                                /\ e.printed[w].line = "open edges"
                                /\ e.printed[w].who = CompOf(id).name
                                /\ e.printed[w].n = OpenEdgesOf(id)

\* C8: every pair submitted to the pairwise test is made of two components
\* with a mesh and a shape other than Point and Line, and so is every
\* component whose id is returned.
C8_OnlyEligibleTested ==
    /\ \A k \in 1..Len(v_log) :
          \A id \in {v_log[k].id1, v_log[k].id2} :
              /\ CompOf(id).mesh # <<>>
              /\ CompOf(id).shape \notin {"Point", "Line"}
    /\ \A id \in v_ret :
          /\ CompOf(id).mesh # <<>>
          /\ CompOf(id).shape \notin {"Point", "Line"}

\* A call that returned flagged ids walked a first root under which there
\* are a Line with a mesh, a Point with a mesh or a component without mesh,
\* none of them tested.
C8_Witness ==
    /\ v_pc = "returned"
    /\ v_ret # {}
    /\ Len(v_components) = 1
    /\ \E k \in 1..Len(Flatten(v_components)) :
          LET c == Flatten(v_components)[k]
          IN  /\ c.shape = "Line"
              /\ c.mesh # <<>>
              /\ \E id \in v_ret : BoxesIntersect(c.mesh[1].bounds, BoundsOf(id))
    /\ Len(v_log) = 1

\* C26: get_overlap gives an overlap fraction for every outcome of the
\* sampling, the one in which no sampled point is enclosed by the first mesh
\* included, so that no find_overlaps call ends in an exception and every
\* fraction printed for a flagged pair, n_points / n_surviving, lies in 0..1.
C26_FractionAlwaysDefined ==
    /\ v_pc # "raised"
    /\ \A k \in 1..Len(v_log) :
          \A w \in 1..Len(v_log[k].printed) :
              v_log[k].printed[w].line = "may overlap" =>
                  /\ v_log[k].printed[w].of > 0
                  /\ v_log[k].printed[w].n <= v_log[k].printed[w].of

\* The witness actors of the pairs the log shows as flagged, in order.
RECURSIVE FlaggedActors(_)
FlaggedActors(log) ==
    IF log = <<>> THEN <<>>
    ELSE (IF Head(log).flagged THEN <<Head(log).actor>> ELSE <<>>)
         \o FlaggedActors(Tail(log))

FirstRootIds ==
    IF v_components = <<>> THEN {}
    ELSE {Flatten(<<v_components[1]>>)[k].id :
             k \in 1..Len(Flatten(<<v_components[1]>>))}

\* C22: the first operand of every comparison is the first root of the
\* forest or a component of its subtree; and when the first root has no
\* mesh, the second operand of every comparison and every id returned also
\* belong to the first root's subtree, whatever lies under the later roots.
C22_FirstRootOnly ==
    /\ \A k \in 1..Len(v_log) : v_log[k].id1 \in FirstRootIds
    /\ (v_components # <<>> /\ v_components[1].mesh = <<>>) =>
          /\ \A k \in 1..Len(v_log) : v_log[k].id2 \in FirstRootIds
          /\ v_ret \subseteq FirstRootIds

\* A call returned on a forest whose first root has no mesh and whose second
\* and third roots are closed solids that overlap without one box lying in
\* the other: nothing was tested and nothing returned.
C22_Witness ==
    /\ v_pc = "returned"
    /\ Len(v_components) = 3
    /\ v_components[1].mesh = <<>>
    /\ Eligible(v_components[2]) /\ Eligible(v_components[3])
    /\ StageOf(LocalMesh(v_components[2]), LocalMesh(v_components[3])) = "sample"
    /\ v_log = <<>>
    /\ v_ret = {}

\* A call returned on a forest whose first root has a mesh: the second root
\* was tested against it, the third root against the first only.
C22_WitnessMeshedRoot ==
    /\ v_pc = "returned"
    /\ Len(v_components) = 3
    /\ Len(v_log) = 2
    /\ v_log[1].id1 = v_components[1].id /\ v_log[1].id2 = v_components[2].id
    /\ v_log[2].id1 = v_components[1].id /\ v_log[2].id2 = v_components[3].id

-----------------------------------------------------------------------------
(* find_overlaps on deeper forests: up to MaxSweepNodes components whose     *)
(* meshes, where they have one, fill the same box, so that every pair        *)
(* submitted to the pairwise test is left at the first containment test.     *)

MaxSweepNodes == 4

SweepKinds ==
    { [shape |-> "Prism", mesh |-> <<>>],
      [shape |-> "Prism", mesh |-> Box(0, 2, 0, 2, 0, 2, 0, TRUE)],
      [shape |-> "Line",  mesh |-> Box(0, 2, 0, 2, 0, 2, 0, TRUE)] }

\* load_file on a saved session holding such components.
SweepLoadFile ==
    /\ v_pc # "off"
    /\ \E n \in 1..(MaxSweepNodes - Len(Flatten(v_components))) :
         \E par \in ParentChoices(n), kind \in [1..n -> SweepKinds] :
            LET new_components ==
                    ChildrenOf(0, par, kind, n, Len(Flatten(v_components)))
            IN  v_components' = v_components \o new_components
    /\ UNCHANGED <<v_plotter, v_overlaps, v_args, v_log, v_ret, v_pc>>

InitSweep == CombineOff /\ BlockOff /\ ExtractOff /\ HepOff /\ ViewerInit /\ SessionOff /\ VrmlOff

NextSweep ==
    \/ SweepLoadFile /\ UNCHANGED <<combineVars, blockVars, extractVars, hepVars, sessionVars, vrmlVars>>
    \/ FindOverlaps /\ UNCHANGED <<combineVars, blockVars, extractVars, hepVars, sessionVars, vrmlVars>>

SpecSweep == InitSweep /\ [][NextSweep]_vars

\* The unordered pairs {x, y} of ids in which x is a component of the list
\* or lies below one, and y is a sibling of x or lies in the subtree of x or
\* of a sibling of x.
RECURSIVE RelatedPairs(_)
RelatedPairs(components) ==
    LET here == {{components[i].id, y.id} :
                    i \in 1..Len(components),
                    y \in {Flatten(components)[k] : k \in 1..Len(Flatten(components))}}
    IN  {p \in here : Cardinality(p) = 2}
        \cup UNION {RelatedPairs(components[i].children) : i \in 1..Len(components)}

\* The number of times the call submitted the pair of ids to the pairwise test.
TimesTested(p) ==
    Cardinality({k \in 1..Len(v_log) : {v_log[k].id1, v_log[k].id2} = p})

\* C21: when a call has returned, every unordered pair of eligible
\* components of the first root's subtree in which one is a sibling of the
\* other or lies in the subtree of the other or of a sibling of the other has
\* been submitted to the pairwise test exactly once, whatever the order of
\* the siblings.
C21_RelatedPairsOnce ==
    (v_pc = "returned" /\ Len(v_components) > 0) =>
        \A p \in RelatedPairs(<<v_components[1]>>) :
            (\A id \in p : Eligible(CompOf(id))) => TimesTested(p) = 1

-----------------------------------------------------------------------------
(* find_overlaps on cylinders: components whose meshes are what             *)
(* create_cylinder_mesh returns for num_segments in 3..MaxSegments, next to *)
(* closed prisms.  A mesh carries its points and its topology; its open     *)
(* edges are counted from the topology.                                     *)

MaxSegments == 6
MaxCylNodes == 2

\* The edges of a face, each as <<from, to>> in the order of the record.
EdgesOf(rec) == {<<rec.idx[t], rec.idx[(t % rec.k) + 1]>> : t \in 1..rec.k}

\* The number of faces that go along the edge from a to b.
Traversals(recs, a, b) ==
    Cardinality({r \in 1..Len(recs) : <<a, b>> \in EdgesOf(recs[r])})

\* The number of faces the edge between a and b belongs to.
FacesAt(recs, a, b) ==
    Cardinality({r \in 1..Len(recs) :
        <<a, b>> \in EdgesOf(recs[r]) \/ <<b, a>> \in EdgesOf(recs[r])})

\* The edges of the faces, without direction.
UndirectedEdges(recs) ==
    UNION {{{e[1], e[2]} : e \in EdgesOf(recs[r])} : r \in 1..Len(recs)}

\* mesh.n_open_edges: the edges that belong to one face only.
NOpenEdges(cells) ==
    LET recs == RecordsOf(cells)
    IN  Cardinality({e \in UndirectedEdges(recs) :
            \E a, b \in e : a # b /\ FacesAt(recs, a, b) = 1})

\* The mesh of a Cylinder component made of one primitive along the x axis
\* from x = 1 to x = 3 with radius 1, as pv.PolyData(points, faces=inds).
CylinderMesh(num_segments) ==
    LET cyl == CreateCylinderMesh(<<1, 1, 1>>, <<3, 1, 1>>, 1, 1, num_segments)
    IN  <<[bounds |-> <<1, 3, 0, 2, 0, 2>>,
           n_open_edges |-> NOpenEdges(cyl.inds),
           is_all_triangles |-> FALSE,
           num_segments |-> num_segments,
           points |-> cyl.points,
           cells |-> cyl.inds]>>

CylinderKinds ==
    {[shape |-> "Cylinder", mesh |-> CylinderMesh(n)] : n \in 3..MaxSegments}
    \cup {[shape |-> "Prism", mesh |-> Box(0, 2, 0, 2, 0, 2, 0, FALSE)]}

\* load_file on a saved session holding such components.
CylinderLoadFile ==
    /\ v_pc # "off"
    /\ \E n \in 1..(MaxCylNodes - Len(Flatten(v_components))) :
         \E par \in ParentChoices(n), kind \in [1..n -> CylinderKinds] :
            LET new_components ==
                    ChildrenOf(0, par, kind, n, Len(Flatten(v_components)))
            IN  v_components' = v_components \o new_components
    /\ UNCHANGED <<v_plotter, v_overlaps, v_args, v_log, v_ret, v_pc>>

InitCylinders == CombineOff /\ BlockOff /\ ExtractOff /\ HepOff /\ ViewerInit /\ SessionOff /\ VrmlOff

NextCylinders ==
    \/ CylinderLoadFile /\ UNCHANGED <<combineVars, blockVars, extractVars, hepVars, sessionVars, vrmlVars>>
    \/ FindOverlaps /\ UNCHANGED <<combineVars, blockVars, extractVars, hepVars, sessionVars, vrmlVars>>

SpecCylinders == InitCylinders /\ [][NextCylinders]_vars

\* C29: the mesh of every Cylinder component built with num_segments = n has
\* 2n points and the n records [4, i, (i+1) mod n, ((i+1) mod n) + n, i + n]
\* for i = 0..n-1 and no other face, every index in 0..2n-1; each of the n
\* side edges {i, i+n} belongs to exactly two faces and each of the 2n ring
\* edges to exactly one, so the mesh has open edges; and no pair with a
\* Cylinder component reaches get_overlap or is flagged, and no Cylinder's
\* id is returned.
C29_CylinderOpen ==
    /\ \A k \in 1..Len(Flatten(v_components)) :
          LET comp == Flatten(v_components)[k]
          IN  comp.shape = "Cylinder" =>
                LET mesh == comp.mesh[1]
                    n    == mesh.num_segments
                    recs == RecordsOf(mesh.cells)
                IN  /\ Len(mesh.points) = 2 * n
                    /\ Len(recs) = n
                    /\ \A i \in 0..(n - 1) :
                          /\ recs[i + 1].k = 4
                          /\ recs[i + 1].idx
                               = <<i, (i + 1) % n, ((i + 1) % n) + n, i + n>>
                          /\ FacesAt(recs, i, i + n) = 2
                          /\ FacesAt(recs, i, (i + 1) % n) = 1
                          /\ FacesAt(recs, i + n, ((i + 1) % n) + n) = 1
                    /\ IndicesValid(mesh.cells, 2 * n)
                    /\ Cardinality(UndirectedEdges(recs)) = 3 * n
                    /\ mesh.n_open_edges = 2 * n
    /\ \A k \in 1..Len(v_log) :
          (CompOf(v_log[k].id1).shape = "Cylinder"
             \/ CompOf(v_log[k].id2).shape = "Cylinder")
          => ~Called(v_log[k], "get_overlap") /\ ~v_log[k].flagged
    /\ \A id \in v_ret : CompOf(id).shape # "Cylinder"

\* A call returned after it came to the open-edge test for a prism and a
\* cylinder of three segments whose boxes overlap.
C29_Witness ==
    /\ v_pc = "returned"
    /\ \E k \in 1..Len(v_log) :
          /\ CompOf(v_log[k].id1).shape = "Prism"
          /\ CompOf(v_log[k].id2).shape = "Cylinder"
          /\ CompOf(v_log[k].id2).mesh[1].num_segments = 3
          /\ Called(v_log[k], "n_open_edges")
          /\ v_log[k].printed # <<>>

\* The same for a cylinder of MaxSegments segments as the first operand.
C29_WitnessMost ==
    /\ v_pc = "returned"
    /\ \E k \in 1..Len(v_log) :
          /\ CompOf(v_log[k].id1).shape = "Cylinder"
          /\ CompOf(v_log[k].id1).mesh[1].num_segments = MaxSegments
          /\ CompOf(v_log[k].id2).shape = "Prism"
          /\ Called(v_log[k], "n_open_edges")

-----------------------------------------------------------------------------
(* GeViewer session: load_file, create_plotter / plot_meshes, find_overlaps *)
(* and clear_meshes on one viewer.  A component loaded from a saved session *)
(* carries, besides the fields above, has_actor and is_event.               *)

\* Bound of the number of components in the forest.
MaxLoaded == 4

\* Bound of the number of witness actors left in the plotter by earlier
\* clear_meshes calls, beyond which find_overlaps is not called again.
MaxLeft == 1

\* A component as a saved session stores it: has_actor is written False.
Saved(id, kind, is_event, children) ==
    [id |-> id, name |-> ToString(id), shape |-> kind.shape, mesh |-> kind.mesh,
     children |-> children, has_actor |-> FALSE, is_event |-> is_event]

\* The files of the session: two saved sessions (a solid holding a solid that
\* overlaps it; a group holding the points of an event), a .gev file that is
\* no archive,
\* a VRML file, a HepRep file and a file of another type.
SessionFiles ==
    {[stem |-> "a", ext |-> ".gev", archive |-> TRUE,
      components |->
        <<Saved(1, [shape |-> "Prism", mesh |-> Box(0, 2, 0, 2, 0, 2, 0, FALSE)], FALSE,
                <<Saved(2, [shape |-> "Prism", mesh |-> Box(1, 3, 0, 2, 0, 2, 0, FALSE)],
                        FALSE, <<>>)>>)>>],
     [stem |-> "b", ext |-> ".gev", archive |-> TRUE,
      components |->
        <<Saved(3, [shape |-> "Prism", mesh |-> <<>>], FALSE,
                <<Saved(4, [shape |-> "Point", mesh |-> Box(0, 2, 0, 2, 0, 2, 0, TRUE)],
                        TRUE, <<>>)>>)>>],
     [stem |-> "bad", ext |-> ".gev", archive |-> FALSE, components |-> <<>>],
     [stem |-> "sample", ext |-> ".wrl", archive |-> FALSE, components |-> <<>>],
     [stem |-> "detector", ext |-> ".heprep", archive |-> FALSE, components |-> <<>>],
     [stem |-> "notes", ext |-> ".txt", archive |-> FALSE, components |-> <<>>]}

\* The branch of load_file's if / elif chain a file name takes.
BranchOf(file) ==
    IF file.ext = ".gev" THEN "load"
    ELSE IF file.ext = ".wrl" THEN "VRMLParser"
    ELSE IF file.ext = ".heprep" THEN "HepRepParser"
    ELSE "none"

\* load_file raises: load cannot open the archive; parse_file(self) is called
\* with progress_callback (TypeError); no branch binds new_components
\* (UnboundLocalError).
LoadFileRaises(file) ==
    \/ BranchOf(file) = "load" /\ ~file.archive
    \/ BranchOf(file) \in {"VRMLParser", "HepRepParser"}
    \/ BranchOf(file) = "none"

\* The orders in which os.listdir may give the component files of an archive.
ListDir(components) ==
    {[k \in 1..Len(components) |-> components[q[k]]] :
        q \in {r \in [1..Len(components) -> 1..Len(components)] :
                  \A a, b \in 1..Len(components) : a # b => r[a] # r[b]}}

\* self.components when load_file ends, by a return or by an exception.
ExtendedBad(components, file, new_components) ==
    IF LoadFileRaises(file) THEN <<>> ELSE components \o new_components

Extended(components, file, new_components) ==
    IF LoadFileRaises(file) THEN components ELSE components \o new_components

\* A call of the session.
Call(op, ok, skipped) == [op |-> op, ok |-> ok, skipped |-> skipped]

\* What the last find_overlaps call was given, tested and returned is kept
\* until the next call of the session.
Forgotten ==
    /\ v_args' = NoArgs
    /\ v_log' = <<>>
    /\ v_ret' = {}
    /\ v_pc' = "ready"

SessionInit ==
    /\ ViewerInit
    /\ v_actors = NoActors
    /\ v_named = NoActors
    /\ v_event_ids = <<>>
    /\ v_added = <<>>
    /\ v_last = NoCall

\* load_file(filename)
SessionLoadFile ==
    /\ \E file \in SessionFiles : \E new_components \in ListDir(file.components) :
          /\ Len(Flatten(v_components)) + Len(Flatten(new_components)) <= MaxLoaded
          /\ v_components' = Extended(v_components, file, new_components)
          /\ v_last' = Call("load_file", ~LoadFileRaises(file), 0)
    /\ Forgotten
    /\ UNCHANGED <<v_plotter, v_overlaps, v_actors, v_named, v_event_ids, v_added>>

\* dict[key] = value
Put(map, key, value) ==
    [k \in DOMAIN map \cup {key} |-> IF k = key THEN value ELSE map[k]]

\* The body of plot_meshes' loop for the component at position n of the
\* forest, on the call's state st = [named, actors, event_ids, added, skipped].
PlotOneBad(comp, n, st) ==
    IF comp.mesh # <<>>
    THEN LET actor == Len(st.added) + 1
         IN  [st EXCEPT
                !.event_ids = IF comp.is_event THEN Append(@, comp.id) ELSE @,
                !.named = Put(@, comp.id, actor),
                !.actors = Put(@, comp.id, actor),
                !.added = Append(@, n)]
    ELSE st

PlotOne(comp, n, st) ==
    IF comp.mesh # <<>> /\ ~comp.has_actor
    THEN LET actor == Len(st.added) + 1
         IN  [st EXCEPT
                !.event_ids = IF comp.is_event THEN Append(@, comp.id) ELSE @,
                !.named = Put(@, comp.id, actor),
                !.actors = Put(@, comp.id, actor),
                !.added = Append(@, n)]
    ELSE IF comp.mesh # <<>> THEN [st EXCEPT !.skipped = @ + 1]
    ELSE st

\* plot_meshes over the forest: a component, then its children, then the
\* next component, which is the order of Flatten.
RECURSIVE PlotFrom(_, _, _)
PlotFrom(flat, n, st) ==
    IF n > Len(flat) THEN st
    ELSE PlotFrom(flat, n + 1, PlotOne(flat[n], n, st))

\* comp['has_actor'] = True on every component plot_meshes gave an actor.
RECURSIVE MarkPlotted(_)
MarkPlotted(components) ==
    [k \in 1..Len(components) |->
        [components[k] EXCEPT
            !.has_actor = @ \/ components[k].mesh # <<>>,
            !.children = MarkPlotted(@)]]

\* create_plotter()
CreatePlotter ==
    /\ LET end == PlotFrom(Flatten(v_components), 1,
                           [named |-> v_named, actors |-> v_actors,
                            event_ids |-> v_event_ids, added |-> v_added,
                            skipped |-> 0])
       IN  /\ v_named' = end.named
           /\ v_actors' = end.actors
           /\ v_event_ids' = end.event_ids
           /\ v_added' = end.added
           /\ v_last' = Call("create_plotter", TRUE, end.skipped)
    /\ v_components' = MarkPlotted(v_components)
    /\ Forgotten
    /\ UNCHANGED <<v_plotter, v_overlaps>>

\* find_overlaps(tolerance, n_samples) in the session.
SessionFindOverlaps ==
    /\ Cardinality(v_plotter \ Unique(v_overlaps)) < MaxLeft
    /\ FindOverlaps
    /\ v_last' = Call("find_overlaps", v_pc' = "returned", 0)
    /\ UNCHANGED <<v_actors, v_named, v_event_ids, v_added>>

\* plotter.remove_actor(actor) for every actor of self.actors.
RemoveActors(named, actors) ==
    LET gone == {actors[id] : id \in DOMAIN actors}
        kept == {name \in DOMAIN named : named[name] \notin gone}
    IN  [name \in kept |-> named[name]]

\* clear_meshes()
ClearMeshes ==
    /\ v_named' = RemoveActors(v_named, v_actors)
    /\ v_actors' = NoActors
    /\ v_components' = <<>>
    /\ v_overlaps' = <<>>
    /\ v_event_ids' = <<>>
    /\ v_added' = <<>>
    /\ v_last' = Call("clear_meshes", TRUE, 0)
    /\ Forgotten
    /\ UNCHANGED v_plotter

InitSession == CombineOff /\ BlockOff /\ ExtractOff /\ HepOff /\ SessionInit /\ VrmlOff

NextSession ==
    \/ SessionLoadFile /\ UNCHANGED <<combineVars, blockVars, extractVars, hepVars, vrmlVars>>
    \/ CreatePlotter /\ UNCHANGED <<combineVars, blockVars, extractVars, hepVars, vrmlVars>>
    \/ SessionFindOverlaps /\ UNCHANGED <<combineVars, blockVars, extractVars, hepVars, vrmlVars>>
    \/ ClearMeshes /\ UNCHANGED <<combineVars, blockVars, extractVars, hepVars, vrmlVars>>

SpecSession == InitSession /\ [][NextSession]_vars

-----------------------------------------------------------------------------
(* Claims about the session *)

\* C11: after any sequence of load_file calls, no two components of the
\* forest have the same id.
C11_IdsUnique ==
    \A i, j \in 1..Len(Flatten(v_components)) :
        i # j => Flatten(v_components)[i].id # Flatten(v_components)[j].id

\* C12: a load_file call that fails leaves self.components, self.actors and
\* self.overlaps as they were before the call.
C12_FailedLoadKeeps ==
    [][(v_last'.op = "load_file" /\ ~v_last'.ok) =>
          /\ v_components' = v_components
          /\ v_actors' = v_actors
          /\ v_overlaps' = v_overlaps]_vars

\* A load failed on a viewer that holds components, actors and a witness.
C12_Witness ==
    /\ v_last.op = "load_file"
    /\ ~v_last.ok
    /\ Len(v_components) = 2
    /\ DOMAIN v_actors = {1, 2}
    /\ Len(v_overlaps) = 1

\* The positions add_mesh was called for.
Added == {v_added[k] : k \in 1..Len(v_added)}

C20_ClearLeavesNothing ==
    v_last.op = "clear_meshes" =>
        /\ v_plotter = {}
        /\ DOMAIN v_named = {}
        /\ v_components = <<>>
        /\ DOMAIN v_actors = {}
        /\ v_overlaps = <<>>
        /\ v_event_ids = <<>>

\* C28: a find_overlaps call leaves the forest as it was, the meshes of the
\* components it triangulated for the tests included, and writes no viewer
\* state other than the overlaps list: the actors map, the named actors of
\* the plotter and the event ids are those from before the call.
C28_ForestUntouched ==
    [][v_last'.op = "find_overlaps" =>
          /\ v_components' = v_components
          /\ v_actors' = v_actors
          /\ v_named' = v_named
          /\ v_event_ids' = v_event_ids]_vars

\* A call has returned after flagging a pair of components whose meshes are
\* not made of triangles: they were triangulated for the tests and the
\* forest still holds them as they were.
C28_Witness ==
    /\ v_last.op = "find_overlaps"
    /\ v_pc = "returned"
    /\ \E k \in 1..Len(v_log) :
          /\ v_log[k].flagged
          /\ ~CompOf(v_log[k].id1).mesh[1].is_all_triangles
          /\ ~CompOf(v_log[k].id2).mesh[1].is_all_triangles
    /\ v_overlaps # <<>>

-----------------------------------------------------------------------------
(* Claims about HepRepParser.parse_file and the viewer *)

\* C25: at every point of parse_file a component has a mesh only if its
\* visible field is true and its shape is one of Prism, Cylinder, Polygon,
\* Point, Line; a component whose visible field is not true has no mesh and
\* is not eligible for the overlap tests; and the visible field of a
\* component merged from several siblings is that of the first of them.
C25_MeshOnlyIfVisible ==
    /\ \A k \in 1..Len(Flatten(h_comps)) :
          LET comp == Flatten(h_comps)[k]
          IN  /\ comp.mesh # <<>> =>
                    /\ comp.visible
                    /\ comp.shape \in {"Prism", "Cylinder", "Polygon", "Point", "Line"}
              /\ ~comp.visible => (comp.mesh = <<>> /\ ~Eligible(comp))
    /\ h_pc \in {"draw", "done"} =>
          \A name \in ChildNames :
              LET group == ToCombine(h_in[1].children, name)
              IN  Len(group) >= 2 =>
                     ToCombine(h_comps[1].children, name)[1].visible = group[1].visible

\* A parse ended with a mesh on one type and none on another type of a
\* recognized shape, with primitives, whose Visibility attribute is absent.
C25_Witness ==
    /\ h_pc = "done"
    /\ \E c \in 1..Len(h_comps[1].children) : h_comps[1].children[c].mesh # <<>>
    /\ \E c \in 1..Len(h_in[1].children) :
          LET type == h_in[1].children[c]
          IN  /\ type.shape = "Prism"
              /\ Len(type.points) > 0
              /\ ~type.visible
              /\ Len(ToCombine(h_in[1].children, type.name)) = 1
              /\ ToCombine(h_comps[1].children, type.name)[1].mesh = <<>>

\* A parse ended with a mesh on a component merged from a visible type
\* followed by a type of the same name with Visibility 'False'.
C25_WitnessMerged ==
    /\ h_pc = "done"
    /\ Len(h_in[1].children) >= 2
    /\ h_in[1].children[1].name = h_in[1].children[2].name
    /\ h_in[1].children[1].visible
    /\ ~h_in[1].children[2].visible
    /\ h_comps[1].children[1].mesh # <<>>

\* No two components of the list share a name, nor do the children of any
\* component of the list, at any depth.
RECURSIVE NoSharedNames(_)
NoSharedNames(components) ==
    /\ \A i, j \in 1..Len(components) :
          i # j => components[i].name # components[j].name
    /\ \A i \in 1..Len(components) : NoSharedNames(components[i].children)

\* The children of the file's component after the reduction pass are the
\* groups of its children before the pass, as the pass is described.
ReducedAsStated(before, after) ==
    LET names == NamesOf(before, <<>>)
    IN  /\ Len(after) = Len(names)
        /\ \A g \in 1..Len(names) :
              LET group == ToCombine(before, names[g])
              IN  /\ after[g].name = names[g]
                  /\ Len(group) = 1 =>
                        /\ after[g].id = group[1].id
                        /\ after[g].mesh_points = group[1].mesh_points
                        /\ after[g].mesh_inds = group[1].mesh_inds
                        /\ after[g].scalars = group[1].scalars
                  /\ Len(group) > 1 =>
                        /\ \A j \in 1..Len(group) : after[g].id # group[j].id
                        /\ after[g].shape = group[1].shape
                        /\ after[g].visible = group[1].visible
                        /\ after[g].is_dot = group[1].is_dot
                        /\ NamesOf(after[g].children, <<>>)
                             = NamesOf(Concatenate([j \in 1..Len(group) |->
                                                       group[j].children]), <<>>)

\* C23: once parse_file has passed its reduction step, the pass has ended
\* without error; the children of the file's component are its former
\* children grouped by name in order of first occurrence, a group of one kept
\* as the same component with its buffers, a larger group replaced by a new
\* component with the first member's shape, visibility and dot flag over the
\* members' children; and no two siblings at any level share a name.
C23_GroupedByName ==
    h_pc \in {"draw", "done", "failed_reduce", "failed_draw"} =>
        /\ h_pc # "failed_reduce"
        /\ ReducedAsStated(CreateMeshes(h_in)[1].children, h_comps[1].children)
        /\ NoSharedNames(h_comps)

\* C24: when parse_file has come to draw_mesh and ended, every visible
\* Prism, Cylinder or Point type made of two or more primitives that shares
\* its name with no sibling has a mesh, built without error, whose points
\* number the sum of the points of all its mesh entries and whose colour
\* buffer has one entry per point.
C24_AllEntriesDrawn ==
    h_pc \in {"done", "failed_draw"} =>
        \A c \in 1..Len(h_in[1].children) :
            LET type    == h_in[1].children[c]
                created == CreateMesh(type)
                comp    == ToCombine(h_comps[1].children, type.name)[1]
            IN  (/\ type.shape \in {"Prism", "Cylinder", "Point"}
                 /\ type.visible
                 /\ Len(type.points) >= 2
                 /\ Len(ToCombine(h_in[1].children, type.name)) = 1)
                => /\ h_pc = "done"
                   /\ comp.mesh # <<>>
                   /\ Len(comp.mesh[1].points) = PointsHeld(created)
                   /\ Len(comp.mesh[1].colors) = Len(comp.mesh[1].points)

\* C30: when create_meshes has run, every Prism component has one topology
\* entry of exactly six 4-index records over the indices 0..7 that form a
\* closed, consistently oriented surface: each vertex belongs to exactly
\* three faces, there are 12 edges, each belongs to exactly two faces, and
\* the two faces traverse it in opposite directions.
C30_PrismClosedOriented ==
    h_pc = "reduce" =>
        \A k \in 1..Len(Flatten(h_comps)) :
            LET comp == Flatten(h_comps)[k]
            IN  comp.shape = "Prism" =>
                  /\ Len(comp.mesh_inds) = 1
                  /\ LET recs == RecordsOf(comp.mesh_inds[1])
                     IN  /\ Len(recs) = 6
                         /\ Len(comp.mesh_inds[1]) = 30
                         /\ \A r \in 1..6 :
                               /\ recs[r].k = 4
                               /\ \A t \in 1..4 : recs[r].idx[t] \in 0..7
                               /\ Cardinality({recs[r].idx[t] : t \in 1..4}) = 4
                         /\ \A v \in 0..7 :
                               Cardinality({r \in 1..6 :
                                   \E t \in 1..4 : recs[r].idx[t] = v}) = 3
                         /\ Cardinality(UndirectedEdges(recs)) = 12
                         /\ \A a, b \in 0..7 :
                               {a, b} \in UndirectedEdges(recs) =>
                                   /\ FacesAt(recs, a, b) = 2
                                   /\ Traversals(recs, a, b) = 1
                                   /\ Traversals(recs, b, a) = 1
                         /\ NOpenEdges(comp.mesh_inds[1]) = 0

\* create_meshes has run on a file with two Prism types of different names,
\* each of one primitive of eight points.
C30_Witness ==
    /\ h_pc = "reduce"
    /\ Len(h_comps[1].children) >= 2
    /\ h_comps[1].children[1].name # h_comps[1].children[2].name
    /\ \A c \in 1..2 :
          LET comp == h_comps[1].children[c]
          IN  /\ comp.shape = "Prism"
              /\ Len(comp.points) = 1
              /\ Len(comp.mesh_points[1]) = 8
              /\ comp.mesh_inds = <<PrismFaces>>

====
